---- MODULE Spec2Model ----
(***************************************************************************)
(* Model of the local-discord entity store (zustand store, store/index.ts), *)
(* its tag parser (utils/tags.ts) and its persistence bridge                *)
(* (utils/storage.ts).                                                      *)
(*                                                                          *)
(* Strings are sequences of one-character strings, so that the tag regex    *)
(* can be evaluated character by character.  A record field that is         *)
(* optional in the TypeScript types (icon?, editedAt?, tags?, isPinned?,    *)
(* isBookmarked?) is modelled by the key being in or out of the record's    *)
(* DOMAIN; a key whose JavaScript value is undefined is modelled as absent  *)
(* (JSON.stringify drops it and every read of it yields undefined).         *)
(***************************************************************************)
EXTENDS Integers, Sequences, FiniteSets, TLC

VARIABLES
    servers,            \* AppStore.servers
    channels,           \* AppStore.channels
    messages,           \* AppStore.messages
    selectedServerId,   \* AppStore.selectedServerId
    selectedChannelId,  \* AppStore.selectedChannelId
    storage,            \* localStorage slot 'local-discord-data'
    storageFails,       \* environment: localStorage.setItem throws
    tagRegexLastIndex,  \* TAG_REGEX.lastIndex (module-level /g regex)
    now,                \* the value Date.now() returns
    uuidCount,          \* number of uuidv4() calls made so far
    steps,              \* number of operations performed so far
    failedOps,          \* history: number of those performed while
                        \* setItem threw
    lastOp,             \* history: the store operation that ran last
    edited,             \* history: ids of the current messages that
                        \* updateMessage has been applied to
    selectedTag,        \* AppStore.selectedTag (the tag filter)
    searchQuery,        \* AppStore.searchQuery
    arg,                \* the argument of the read-only call made last
    returned,           \* the value that call returned
    thrown,             \* the error that escaped to React, if one did
    exportedFile,       \* the text of the backup file downloaded last
    imports,            \* the imports started: file, phase, calls of
                        \* resolve and reject, status message shown
    statusMessage       \* SettingsPanel's message state

storeVars == <<servers, channels, messages>>
selVars   == <<selectedServerId, selectedChannelId>>
envVars   == <<storageFails, tagRegexLastIndex>>
uiVars    == <<selectedTag, searchQuery>>
callVars  == <<arg, returned>>
ioVars    == <<thrown, exportedFile, imports, statusMessage>>
countVars == <<steps, failedOps>>
vars == <<servers, channels, messages, selectedServerId, selectedChannelId,
          storage, storageFails, tagRegexLastIndex, now, uuidCount, steps,
          lastOp, edited, selectedTag, searchQuery, arg, returned, thrown,
          exportedFile, imports, statusMessage, failedOps>>

----------------------------------------------------------------------------
(* Bounds *)

\* number of operations explored from the start-up state, in Spec
MaxSteps == 4
\* number of operations explored from the start-up state, in SpecMsg
MaxMsgSteps == 3
\* number of operations explored from the start-up state, in SpecAll
MaxAllSteps == 3
\* Date.now() ranges over 1..MaxTime
MaxTime == 2

----------------------------------------------------------------------------
(* Generic helpers for JavaScript values *)

\* JavaScript null
NULL == "null"

\* obj.key !== undefined
Has(obj, key) == key \in DOMAIN obj

\* { ...obj, ...updates }
Spread(obj, updates) ==
    [k \in (DOMAIN obj) \cup (DOMAIN updates) |->
        IF k \in DOMAIN updates THEN updates[k] ELSE obj[k]]

\* { ...obj, key: undefined }: reads of key yield undefined afterwards
Without(obj, key) == [k \in (DOMAIN obj) \ {key} |-> obj[k]]

\* Array.prototype.map
Map(arr, F(_)) == [i \in 1..Len(arr) |-> F(arr[i])]

\* Array.prototype.filter
Filter(arr, P(_)) == SelectSeq(arr, P)

\* Array.prototype.includes
Includes(arr, x) == \E i \in 1..Len(arr) : arr[i] = x

\* Array.prototype.find, as the index of the first hit (0: undefined)
FindIndex(arr, P(_)) ==
    IF \E i \in 1..Len(arr) : P(arr[i])
    THEN CHOOSE i \in 1..Len(arr) : P(arr[i]) /\ \A j \in 1..(i-1) : ~P(arr[j])
    ELSE 0

\* the set of elements of an array
Elems(arr) == {arr[i] : i \in 1..Len(arr)}

----------------------------------------------------------------------------
(* utils/tags.ts *)

\* characters of the character class [\w<U+AC00>-<U+D7A3>/] that the model
\* uses; "ga" stands for the one Hangul syllable U+AC00
WordChars   == {"a", "b", "A", "B", "1", "_"}
HangulChars == {"ga"}
TagChars    == WordChars \cup HangulChars \cup {"/"}

\* String.prototype.toLowerCase on one character
toLowerCase(c) ==
    CASE c = "A" -> "a"
      [] c = "B" -> "b"
      [] OTHER -> c

\* String.prototype.toUpperCase on one character
toUpperCase(c) ==
    CASE c = "a" -> "A"
      [] c = "b" -> "B"
      [] OTHER -> c

LowerStr(s) == [i \in 1..Len(s) |-> toLowerCase(s[i])]

\* TAG_REGEX matches at 1-based position i: '#' followed by a tag character
MatchesAt(content, i) ==
    /\ i >= 1
    /\ i + 1 <= Len(content)
    /\ content[i] = "#"
    /\ content[i + 1] \in TagChars

\* greedy [\w<Hangul>/]+ : 1-based position of the last character of the match
MatchEnd(content, i) ==
    CHOOSE j \in (i + 1)..Len(content) :
        /\ \A k \in (i + 1)..j : content[k] \in TagChars
        /\ (j = Len(content) \/ content[j + 1] \notin TagChars)

\* regex.exec(content) with regex.lastIndex = lastIndex (0-based):
\* 1-based position of the next match, 0 when exec returns null
ExecIndex(content, lastIndex) ==
    IF \E i \in (lastIndex + 1)..Len(content) : MatchesAt(content, i)
    THEN CHOOSE i \in (lastIndex + 1)..Len(content) :
            /\ MatchesAt(content, i)
            /\ \A j \in (lastIndex + 1)..(i - 1) : ~MatchesAt(content, j)
    ELSE 0

\* the successive matches of the /g regex from lastIndex on, each as
\* [index (0-based match.index), raw (match[0]), group (match[1])]
RECURSIVE MatchAll(_, _)
MatchAll(content, lastIndex) ==
    LET i == ExecIndex(content, lastIndex)
    IN  IF i = 0 THEN <<>>
        ELSE LET e == MatchEnd(content, i)
             IN  <<[index |-> i - 1,
                    raw   |-> SubSeq(content, i, e),
                    group |-> SubSeq(content, i + 1, e)]>>
                 \o MatchAll(content, e)

\* new Set<string>() filled by tags.add(tag), read back by Array.from(tags)
RECURSIVE SetInsertionOrder(_)
SetInsertionOrder(arr) ==
    IF arr = <<>> THEN <<>>
    ELSE LET front == SetInsertionOrder(SubSeq(arr, 1, Len(arr) - 1))
             last  == arr[Len(arr)]
         IN  IF Includes(front, last) THEN front ELSE Append(front, last)

\* variant: the matches are collected as written, without toLowerCase
parseTagsFrom_keepsCase(content, lastIndex) ==
    LET matches == MatchAll(content, lastIndex)
    IN  SetInsertionOrder([i \in 1..Len(matches) |-> matches[i].group])

\* parseTags evaluated with TAG_REGEX.lastIndex = lastIndex:
\* String.prototype.matchAll clones the regex and copies its lastIndex
parseTagsFrom(content, lastIndex) ==
    LET matches == MatchAll(content, lastIndex)
    IN  SetInsertionOrder([i \in 1..Len(matches) |-> LowerStr(matches[i].group)])

parseTags(content) == parseTagsFrom(content, tagRegexLastIndex)

\* hasTags(content) = TAG_REGEX.test(content) on the shared /g regex: the
\* search starts at TAG_REGEX.lastIndex
hasTags(content) == ExecIndex(content, tagRegexLastIndex) # 0

\* TAG_REGEX.lastIndex after hasTags(content): the end of the match found,
\* or 0 when there was none
hasTagsLastIndex(content) ==
    LET i == ExecIndex(content, tagRegexLastIndex)
    IN  IF i = 0 THEN 0 ELSE MatchEnd(content, i)

\* the while loop of parseContentWithTags from the local lastIndex on; its
\* own regex has the same lastIndex, the end of the match before
RECURSIVE PartsFrom(_, _)
PartsFrom(content, lastIndex) ==
    LET i == ExecIndex(content, lastIndex)
    IN  IF i = 0
        THEN IF lastIndex < Len(content)
             THEN <<[type |-> "text",
                     content |-> SubSeq(content, lastIndex + 1, Len(content))]>>
             ELSE <<>>
        ELSE LET e == MatchEnd(content, i)
             IN  (IF i - 1 > lastIndex
                  THEN <<[type |-> "text",
                          content |-> SubSeq(content, lastIndex + 1, i - 1)]>>
                  ELSE <<>>)
                 \o <<[type |-> "tag",
                       content |-> SubSeq(content, i, e),
                       tag |-> LowerStr(SubSeq(content, i + 1, e))]>>
                 \o PartsFrom(content, e)

\* variant: the text after the last tag is not appended
parseContentWithTags_dropsTail(content) ==
    LET parts == PartsFrom(content, 0)
    IN  IF parts # <<>> /\ parts[Len(parts)].type = "text"
        THEN SubSeq(parts, 1, Len(parts) - 1)
        ELSE parts

parseContentWithTags(content) == PartsFrom(content, 0)

----------------------------------------------------------------------------
(* utils/storage.ts *)

CURRENT_VERSION == 1

\* localStorage.getItem returns null: the slot holds nothing
NoItem == <<>>

\* JSON.stringify(data): the text kept in the slot.  The text of a value
\* parses back to that value; other texts do not parse.
JSONStringify(data) == [parses |-> TRUE, value |-> data]

\* ids and texts of the seeded default snapshot; the texts are shortened
\* stand-ins for the literals of getDefaultData, which contain no '#'
DefaultServerName == <<"ga", " ", "ga">>
DefaultServerIcon == <<"ga">>
DefaultChannelName == <<"a">>
WelcomeContent == <<"ga", " ", "A", "!">>

getDefaultData ==
    [servers  |-> <<[id |-> "default-server", name |-> DefaultServerName,
                     icon |-> DefaultServerIcon, createdAt |-> now]>>,
     channels |-> <<[id |-> "default-channel", serverId |-> "default-server",
                     name |-> DefaultChannelName, createdAt |-> now]>>,
     messages |-> <<[id |-> "welcome-message", channelId |-> "default-channel",
                     content |-> WelcomeContent, createdAt |-> now]>>,
     version  |-> CURRENT_VERSION]

\* variant: the item is removed before the write that fails
saveDataOn_clearsOnFailure(slot, data) ==
    IF storageFails THEN NoItem ELSE <<JSONStringify(data)>>

\* saveData(data): the contents of the slot after the call; a throwing
\* setItem is caught and logged, the slot keeps what it held
saveDataOn(slot, data) ==
    IF storageFails THEN slot ELSE <<JSONStringify(data)>>

saveData(data) == saveDataOn(storage, data)

\* loadData() on a slot: [data |-> the value returned, slot |-> the slot
\* afterwards]
loadDataOn(slot) ==
    IF slot = NoItem
    THEN [data |-> getDefaultData, slot |-> saveDataOn(slot, getDefaultData)]
    ELSE LET raw == slot[1]
         IN  IF ~raw.parses
             THEN [data |-> getDefaultData, slot |-> slot]
             ELSE LET data == raw.value
                  IN  IF Has(data, "version") /\ data.version < CURRENT_VERSION
                      THEN LET stamped == [data EXCEPT !.version = CURRENT_VERSION]
                           IN  [data |-> stamped, slot |-> saveDataOn(slot, stamped)]
                      ELSE [data |-> data, slot |-> slot]

\* variant: the default seeded for an empty slot is not saved
loadData_noSeed ==
    IF storage = NoItem
    THEN [data |-> getDefaultData, slot |-> storage]
    ELSE LET raw == storage[1]
         IN  IF ~raw.parses
             THEN [data |-> getDefaultData, slot |-> storage]
             ELSE LET data == raw.value
                  IN  IF Has(data, "version") /\ data.version < CURRENT_VERSION
                      THEN LET stamped == [data EXCEPT !.version = CURRENT_VERSION]
                           IN  [data |-> stamped, slot |-> saveData(stamped)]
                      ELSE [data |-> data, slot |-> storage]

\* loadData() on the slot as it is
loadData == loadDataOn(storage)

\* resetData(): the slot after saveData(getDefaultData())
resetData == saveData(getDefaultData)

----------------------------------------------------------------------------
(* store/index.ts: state helpers *)

\* the pool uuidv4() draws from: every call returns a value never seen before
UuidPool == <<"uuid-1", "uuid-2", "uuid-3", "uuid-4", "uuid-5", "uuid-6",
              "uuid-7", "uuid-8">>

uuidv4 == UuidPool[uuidCount + 1]

\* x || null for an id: '' and undefined are falsy
OrNull(arr, i) == IF i = 0 \/ arr[i].id = "" THEN NULL ELSE arr[i].id

\* the snapshot handed to saveData by the CRUD actions
Snapshot(s, c, m) ==
    [servers |-> s, channels |-> c, messages |-> m, version |-> 1]

Ids(arr) == {arr[i].id : i \in 1..Len(arr)}

----------------------------------------------------------------------------
(* store/index.ts: server CRUD *)

\* variant: the new server is appended to the stored snapshot instead of
\* the whole state being saved
addServer_patchesStored(name, icon) ==
    /\ uuidCount < Len(UuidPool)
    /\ LET newServer ==
               [id |-> uuidv4,
                name |-> name,
                icon |-> IF icon # <<>> THEN icon
                         ELSE IF name = <<>> THEN <<>>
                         ELSE <<toUpperCase(name[1])>>,
                createdAt |-> now]
           stored == loadData.data
       IN  /\ servers' = Append(servers, newServer)
           /\ storage' = saveData([stored EXCEPT
                                      !.servers = Append(@, newServer)])
           /\ lastOp' = [op |-> "addServer", id |-> newServer.id, found |-> FALSE]
    /\ uuidCount' = uuidCount + 1
    /\ UNCHANGED <<channels, messages, selVars, envVars, uiVars, callVars,
                   ioVars, now, edited>>

addServer(name, icon) ==
    /\ uuidCount < Len(UuidPool)
    /\ LET newServer ==
               [id |-> uuidv4,
                name |-> name,
                icon |-> IF icon # <<>> THEN icon
                         ELSE IF name = <<>> THEN <<>>
                         ELSE <<toUpperCase(name[1])>>,
                createdAt |-> now]
       IN  /\ servers' = Append(servers, newServer)
           /\ storage' = saveData(Snapshot(servers', channels, messages))
           /\ lastOp' = [op |-> "addServer", id |-> newServer.id, found |-> FALSE]
    /\ uuidCount' = uuidCount + 1
    /\ UNCHANGED <<channels, messages, selVars, envVars, uiVars, callVars,
                   ioVars, now, edited>>

updateServer(id, updates) ==
    /\ servers' = Map(servers, LAMBDA s : IF s.id = id THEN Spread(s, updates) ELSE s)
    /\ storage' = saveData(Snapshot(servers', channels, messages))
    /\ lastOp' = [op |-> "updateServer", id |-> id, found |-> id \in Ids(servers)]
    /\ UNCHANGED <<channels, messages, selVars, envVars, uiVars, callVars,
                   ioVars, now, uuidCount, edited>>

\* variant: the cascade stops at the channels
deleteServer_keepsMessages(id) ==
    /\ servers' = Filter(servers, LAMBDA s : s.id # id)
    /\ channels' = Filter(channels, LAMBDA c : c.serverId # id)
    /\ messages' = messages
    /\ selectedServerId' = IF selectedServerId = id THEN NULL ELSE selectedServerId
    /\ selectedChannelId' =
           IF \E i \in 1..Len(channels) :
                  channels[i].serverId = id /\ channels[i].id = selectedChannelId
           THEN NULL ELSE selectedChannelId
    /\ storage' = saveData(Snapshot(servers', channels', messages'))
    /\ lastOp' = [op |-> "deleteServer", id |-> id, found |-> id \in Ids(servers)]
    /\ edited' = edited \cap Ids(messages')
    /\ UNCHANGED <<envVars, uiVars, callVars, ioVars, now, uuidCount>>

\* variant: the channel selection is cleared only with the server selection
deleteServer_selectionTied(id) ==
    LET channelIds == Map(Filter(channels, LAMBDA c : c.serverId = id),
                          LAMBDA c : c.id)
    IN  /\ servers' = Filter(servers, LAMBDA s : s.id # id)
        /\ channels' = Filter(channels, LAMBDA c : c.serverId # id)
        /\ messages' = Filter(messages, LAMBDA m : ~Includes(channelIds, m.channelId))
        /\ selectedServerId' = IF selectedServerId = id THEN NULL ELSE selectedServerId
        /\ selectedChannelId' = IF selectedServerId = id THEN NULL ELSE selectedChannelId
        /\ storage' = saveData(Snapshot(servers', channels', messages'))
        /\ lastOp' = [op |-> "deleteServer", id |-> id, found |-> id \in Ids(servers)]
        /\ edited' = edited \cap Ids(messages')
        /\ UNCHANGED <<envVars, uiVars, callVars, ioVars, now, uuidCount>>

deleteServer(id) ==
    LET channelIds == Map(Filter(channels, LAMBDA c : c.serverId = id),
                          LAMBDA c : c.id)
    IN  /\ servers' = Filter(servers, LAMBDA s : s.id # id)
        /\ channels' = Filter(channels, LAMBDA c : c.serverId # id)
        /\ messages' = Filter(messages, LAMBDA m : ~Includes(channelIds, m.channelId))
        /\ selectedServerId' = IF selectedServerId = id THEN NULL ELSE selectedServerId
        /\ selectedChannelId' =
               IF Includes(channelIds,
                           IF selectedChannelId = NULL THEN "" ELSE selectedChannelId)
               THEN NULL ELSE selectedChannelId
        /\ storage' = saveData(Snapshot(servers', channels', messages'))
        /\ lastOp' = [op |-> "deleteServer", id |-> id, found |-> id \in Ids(servers)]
        /\ edited' = edited \cap Ids(messages')
        /\ UNCHANGED <<envVars, uiVars, callVars, ioVars, now, uuidCount>>

----------------------------------------------------------------------------
(* store/index.ts: channel CRUD *)

\* variant: the new channel is put first
addChannel_prepends(serverId, name) ==
    /\ uuidCount < Len(UuidPool)
    /\ LET newChannel ==
               [id |-> uuidv4, serverId |-> serverId, name |-> name,
                createdAt |-> now]
       IN  /\ channels' = <<newChannel>> \o channels
           /\ storage' = saveData(Snapshot(servers, channels', messages))
           /\ lastOp' = [op |-> "addChannel", id |-> newChannel.id, found |-> FALSE]
    /\ uuidCount' = uuidCount + 1
    /\ UNCHANGED <<servers, messages, selVars, envVars, uiVars, callVars,
                   ioVars, now, edited>>

addChannel(serverId, name) ==
    /\ uuidCount < Len(UuidPool)
    /\ LET newChannel ==
               [id |-> uuidv4, serverId |-> serverId, name |-> name,
                createdAt |-> now]
       IN  /\ channels' = Append(channels, newChannel)
           /\ storage' = saveData(Snapshot(servers, channels', messages))
           /\ lastOp' = [op |-> "addChannel", id |-> newChannel.id, found |-> FALSE]
    /\ uuidCount' = uuidCount + 1
    /\ UNCHANGED <<servers, messages, selVars, envVars, uiVars, callVars,
                   ioVars, now, edited>>

updateChannel(id, updates) ==
    /\ channels' = Map(channels, LAMBDA c : IF c.id = id THEN Spread(c, updates) ELSE c)
    /\ storage' = saveData(Snapshot(servers, channels', messages))
    /\ lastOp' = [op |-> "updateChannel", id |-> id, found |-> id \in Ids(channels)]
    /\ UNCHANGED <<servers, messages, selVars, envVars, uiVars, callVars,
                   ioVars, now, uuidCount, edited>>

\* variant: the messages of the channel are left behind
deleteChannel_keepsMessages(id) ==
    /\ channels' = Filter(channels, LAMBDA c : c.id # id)
    /\ messages' = messages
    /\ selectedChannelId' = IF selectedChannelId = id THEN NULL ELSE selectedChannelId
    /\ storage' = saveData(Snapshot(servers, channels', messages'))
    /\ lastOp' = [op |-> "deleteChannel", id |-> id, found |-> id \in Ids(channels)]
    /\ edited' = edited \cap Ids(messages')
    /\ UNCHANGED <<servers, selectedServerId, envVars, uiVars, callVars,
                   ioVars, now, uuidCount>>

\* variant: any channel deletion clears the channel selection
deleteChannel_alwaysDeselects(id) ==
    /\ channels' = Filter(channels, LAMBDA c : c.id # id)
    /\ messages' = Filter(messages, LAMBDA m : m.channelId # id)
    /\ selectedChannelId' = NULL
    /\ storage' = saveData(Snapshot(servers, channels', messages'))
    /\ lastOp' = [op |-> "deleteChannel", id |-> id, found |-> id \in Ids(channels)]
    /\ edited' = edited \cap Ids(messages')
    /\ UNCHANGED <<servers, selectedServerId, envVars, uiVars, callVars,
                   ioVars, now, uuidCount>>

deleteChannel(id) ==
    /\ channels' = Filter(channels, LAMBDA c : c.id # id)
    /\ messages' = Filter(messages, LAMBDA m : m.channelId # id)
    /\ selectedChannelId' = IF selectedChannelId = id THEN NULL ELSE selectedChannelId
    /\ storage' = saveData(Snapshot(servers, channels', messages'))
    /\ lastOp' = [op |-> "deleteChannel", id |-> id, found |-> id \in Ids(channels)]
    /\ edited' = edited \cap Ids(messages')
    /\ UNCHANGED <<servers, selectedServerId, envVars, uiVars, callVars,
                   ioVars, now, uuidCount>>

----------------------------------------------------------------------------
(* store/index.ts: message CRUD *)

\* variant: the tags field is stored even when no tag was found
WithTags_storesEmpty(m, tags) == Spread(m, [tags |-> tags])

\* tags: tags.length > 0 ? tags : undefined
WithTags(m, tags) ==
    IF Len(tags) > 0 THEN Spread(m, [tags |-> tags]) ELSE Without(m, "tags")

\* variant: saveData is handed state.messages instead of updated.messages
addMessage_savesStale(channelId, content) ==
    /\ uuidCount < Len(UuidPool)
    /\ LET tags == parseTags(content)
           newMessage ==
               WithTags([id |-> uuidv4, channelId |-> channelId,
                         content |-> content, createdAt |-> now], tags)
       IN  /\ messages' = Append(messages, newMessage)
           /\ storage' = saveData(Snapshot(servers, channels, messages))
           /\ lastOp' = [op |-> "addMessage", id |-> newMessage.id, found |-> FALSE]
    /\ uuidCount' = uuidCount + 1
    /\ UNCHANGED <<servers, channels, selVars, envVars, uiVars, callVars,
                   ioVars, now, edited>>

addMessage(channelId, content) ==
    /\ uuidCount < Len(UuidPool)
    /\ LET tags == parseTags(content)
           newMessage ==
               WithTags([id |-> uuidv4, channelId |-> channelId,
                         content |-> content, createdAt |-> now], tags)
       IN  /\ messages' = Append(messages, newMessage)
           /\ storage' = saveData(Snapshot(servers, channels, messages'))
           /\ lastOp' = [op |-> "addMessage", id |-> newMessage.id, found |-> FALSE]
    /\ uuidCount' = uuidCount + 1
    /\ UNCHANGED <<servers, channels, selVars, envVars, uiVars, callVars,
                   ioVars, now, edited>>

\* variant: the edited message is rebuilt from its identity, losing its flags
updateMessage_rebuilds(id, content) ==
    LET tags == parseTags(content)
    IN  /\ messages' =
               Map(messages, LAMBDA m :
                   IF m.id = id
                   THEN WithTags([id |-> m.id, channelId |-> m.channelId,
                                  content |-> content, createdAt |-> m.createdAt,
                                  editedAt |-> now], tags)
                   ELSE m)
        /\ storage' = saveData(Snapshot(servers, channels, messages'))
        /\ lastOp' = [op |-> "updateMessage", id |-> id, found |-> id \in Ids(messages)]
        /\ edited' = edited \cup ({id} \cap Ids(messages))
        /\ UNCHANGED <<servers, channels, selVars, envVars, uiVars, callVars,
                       ioVars, now, uuidCount>>

updateMessage(id, content) ==
    LET tags == parseTags(content)
    IN  /\ messages' =
               Map(messages, LAMBDA m :
                   IF m.id = id
                   THEN WithTags(Spread(m, [content |-> content, editedAt |-> now]),
                                 tags)
                   ELSE m)
        /\ storage' = saveData(Snapshot(servers, channels, messages'))
        /\ lastOp' = [op |-> "updateMessage", id |-> id, found |-> id \in Ids(messages)]
        /\ edited' = edited \cup ({id} \cap Ids(messages))
        /\ UNCHANGED <<servers, channels, selVars, envVars, uiVars, callVars,
                       ioVars, now, uuidCount>>

\* variant: splice(findIndex(...), 1), which removes the last message when
\* findIndex returns -1
deleteMessage_splice(id) ==
    /\ messages' = IF id \in Ids(messages) \/ messages = <<>>
                   THEN Filter(messages, LAMBDA m : m.id # id)
                   ELSE SubSeq(messages, 1, Len(messages) - 1)
    /\ storage' = saveData(Snapshot(servers, channels, messages'))
    /\ lastOp' = [op |-> "deleteMessage", id |-> id, found |-> id \in Ids(messages)]
    /\ edited' = edited \cap Ids(messages')
    /\ UNCHANGED <<servers, channels, selVars, envVars, uiVars, callVars,
                   ioVars, now, uuidCount>>

deleteMessage(id) ==
    /\ messages' = Filter(messages, LAMBDA m : m.id # id)
    /\ storage' = saveData(Snapshot(servers, channels, messages'))
    /\ lastOp' = [op |-> "deleteMessage", id |-> id, found |-> id \in Ids(messages)]
    /\ edited' = edited \cap Ids(messages')
    /\ UNCHANGED <<servers, channels, selVars, envVars, uiVars, callVars,
                   ioVars, now, uuidCount>>

\* !m.isPinned, !m.isBookmarked: an absent flag reads as undefined (falsy)
Flag(m, key) == Has(m, key) /\ m[key]

\* variant: the pin is set, not flipped
PinToggled_setsTrue(msgs, id) ==
    Map(msgs, LAMBDA m : IF m.id = id THEN Spread(m, [isPinned |-> TRUE]) ELSE m)

\* state.messages.map((m) => m.id === id ? { ...m, isPinned: !m.isPinned } : m)
PinToggled(msgs, id) ==
    Map(msgs, LAMBDA m :
        IF m.id = id THEN Spread(m, [isPinned |-> ~Flag(m, "isPinned")]) ELSE m)

\* state.messages.map((m) =>
\*     m.id === id ? { ...m, isBookmarked: !m.isBookmarked } : m)
BookmarkToggled(msgs, id) ==
    Map(msgs, LAMBDA m :
        IF m.id = id THEN Spread(m, [isBookmarked |-> ~Flag(m, "isBookmarked")])
        ELSE m)

\* variant: pinning counts as an edit
togglePin_stampsEdit(id) ==
    /\ messages' =
           Map(messages, LAMBDA m :
               IF m.id = id
               THEN Spread(m, [isPinned |-> ~Flag(m, "isPinned"), editedAt |-> now])
               ELSE m)
    /\ storage' = saveData(Snapshot(servers, channels, messages'))
    /\ lastOp' = [op |-> "togglePin", id |-> id, found |-> id \in Ids(messages)]
    /\ UNCHANGED <<servers, channels, selVars, envVars, uiVars, callVars,
                   ioVars, now, uuidCount, edited>>

togglePin(id) ==
    /\ messages' = PinToggled(messages, id)
    /\ storage' = saveData(Snapshot(servers, channels, messages'))
    /\ lastOp' = [op |-> "togglePin", id |-> id, found |-> id \in Ids(messages)]
    /\ UNCHANGED <<servers, channels, selVars, envVars, uiVars, callVars,
                   ioVars, now, uuidCount, edited>>

toggleBookmark(id) ==
    /\ messages' = BookmarkToggled(messages, id)
    /\ storage' = saveData(Snapshot(servers, channels, messages'))
    /\ lastOp' = [op |-> "toggleBookmark", id |-> id, found |-> id \in Ids(messages)]
    /\ UNCHANGED <<servers, channels, selVars, envVars, uiVars, callVars,
                   ioVars, now, uuidCount, edited>>

----------------------------------------------------------------------------
(* store/index.ts: selection *)

\* variant: the channel added last to the server is selected
selectServer_lastChannel(id) ==
    /\ IF id # NULL /\ id # ""
       THEN LET own == {i \in 1..Len(channels) : channels[i].serverId = id}
            IN  /\ selectedServerId' = id
                /\ selectedChannelId' =
                       OrNull(channels, IF own = {} THEN 0
                                        ELSE CHOOSE i \in own : \A j \in own : j <= i)
       ELSE /\ selectedServerId' = NULL
            /\ selectedChannelId' = NULL
    /\ lastOp' = [op |-> "selectServer", id |-> id, found |-> id \in Ids(servers)]
    /\ UNCHANGED <<storeVars, storage, envVars, uiVars, callVars, ioVars,
                   now, uuidCount, edited>>

selectServer(id) ==
    /\ IF id # NULL /\ id # ""
       THEN LET firstChannel == FindIndex(channels, LAMBDA c : c.serverId = id)
            IN  /\ selectedServerId' = id
                /\ selectedChannelId' = OrNull(channels, firstChannel)
       ELSE /\ selectedServerId' = NULL
            /\ selectedChannelId' = NULL
    /\ lastOp' = [op |-> "selectServer", id |-> id, found |-> id \in Ids(servers)]
    /\ UNCHANGED <<storeVars, storage, envVars, uiVars, callVars, ioVars,
                   now, uuidCount, edited>>

selectChannel(id) ==
    /\ selectedChannelId' = id
    /\ lastOp' = [op |-> "selectChannel", id |-> id, found |-> id \in Ids(channels)]
    /\ UNCHANGED <<storeVars, selectedServerId, storage, envVars, uiVars,
                   callVars, ioVars, now, uuidCount, edited>>

----------------------------------------------------------------------------
(* store/index.ts: search query and tag filter *)

\* selectedTag: null.  The filter only tests `selectedTag &&`, which null and
\* '' fail alike, so the absent filter is held as the empty string
NoTag == <<>>

setSearchQuery(query) ==
    /\ searchQuery' = query
    /\ lastOp' = [op |-> "setSearchQuery", id |-> NULL, found |-> FALSE]
    /\ UNCHANGED <<storeVars, selVars, storage, envVars, selectedTag,
                   callVars, ioVars, now, uuidCount, edited>>

selectTag(tag) ==
    /\ selectedTag' = tag
    /\ lastOp' = [op |-> "selectTag", id |-> NULL, found |-> FALSE]
    /\ UNCHANGED <<storeVars, selVars, storage, envVars, searchQuery,
                   callVars, ioVars, now, uuidCount, edited>>

----------------------------------------------------------------------------
(* store/index.ts: data management *)

\* JavaScript undefined, as a state key holds it after set() was given a
\* missing field
UNDEFINED == "undefined"

\* data.servers[0] and data.channels[0] throw a TypeError when the
\* collection is undefined
ReadThrows(data) == ~Has(data, "servers") \/ ~Has(data, "channels")

\* variant: a selection that is set is kept
SetFromData_keepsSelection(data) ==
    /\ servers' = data.servers
    /\ channels' = data.channels
    /\ messages' = IF Has(data, "messages") THEN data.messages ELSE UNDEFINED
    /\ selectedServerId' =
           IF selectedServerId # NULL THEN selectedServerId
           ELSE OrNull(data.servers, IF Len(data.servers) > 0 THEN 1 ELSE 0)
    /\ selectedChannelId' =
           IF selectedChannelId # NULL THEN selectedChannelId
           ELSE OrNull(data.channels, IF Len(data.channels) > 0 THEN 1 ELSE 0)

\* set({servers, channels, messages, selectedServerId, selectedChannelId})
\* as loadFromStorage, resetToDefault and importFromData perform it
SetFromData(data) ==
    /\ servers' = data.servers
    /\ channels' = data.channels
    /\ messages' = IF Has(data, "messages") THEN data.messages ELSE UNDEFINED
    /\ selectedServerId' = OrNull(data.servers, IF Len(data.servers) > 0 THEN 1 ELSE 0)
    /\ selectedChannelId' = OrNull(data.channels, IF Len(data.channels) > 0 THEN 1 ELSE 0)

\* loadData() and then set(...).  The object literal handed to set reads
\* data.servers[0] and data.channels[0]: without the collection the read
\* throws and set is never called.  With messages undefined in the store,
\* the re-render that set triggers throws in useCurrentMessages
\* (messages.filter).  Either error reaches React uncaught.
LoadAndSetOn(slot, op) ==
    LET loaded == loadDataOn(slot)
    IN  /\ storage' = loaded.slot
        /\ lastOp' = [op |-> op, id |-> NULL, found |-> FALSE]
        /\ IF ReadThrows(loaded.data)
           THEN /\ thrown' = "TypeError"
                /\ UNCHANGED <<storeVars, selVars, edited>>
           ELSE /\ SetFromData(loaded.data)
                /\ IF Has(loaded.data, "messages")
                   THEN /\ edited' = edited \cap Ids(loaded.data.messages)
                        /\ UNCHANGED thrown
                   ELSE /\ edited' = {}
                        /\ thrown' = "TypeError"

\* the store action: loadData() reads the slot as it is
LoadAndSet(op) ==
    /\ LoadAndSetOn(storage, op)
    /\ UNCHANGED <<envVars, uiVars, callVars, exportedFile, imports,
                   statusMessage, now, uuidCount>>

loadFromStorage == LoadAndSet("loadFromStorage")

resetToDefault == LoadAndSet("resetToDefault")

\* variant: the imported snapshot is saved under the next version number
importFromDataOn_bumpsVersion(slot, data) ==
    /\ SetFromData(data)
    /\ storage' = saveDataOn(slot, Spread(data, [version |-> 2]))
    /\ lastOp' = [op |-> "importFromData", id |-> NULL, found |-> FALSE]
    /\ edited' = {}

\* set(...) and saveData({ ...data, version: 1 }) on a snapshot that holds
\* the three collections
importFromDataOn(slot, data) ==
    /\ SetFromData(data)
    /\ storage' = saveDataOn(slot, Spread(data, [version |-> 1]))
    /\ lastOp' = [op |-> "importFromData", id |-> NULL, found |-> FALSE]
    /\ edited' = {}

\* variant: the collections are replaced and the selection is kept
importFromData_keepsSelection(data) ==
    /\ servers' = data.servers
    /\ channels' = data.channels
    /\ messages' = data.messages
    /\ storage' = saveData(Spread(data, [version |-> 1]))
    /\ lastOp' = [op |-> "importFromData", id |-> NULL, found |-> FALSE]
    /\ edited' = {}
    /\ UNCHANGED <<selVars, envVars, uiVars, callVars, ioVars, now, uuidCount>>

\* importFromData(data), called by the store's user
importFromData(data) ==
    /\ importFromDataOn(storage, data)
    /\ UNCHANGED <<envVars, uiVars, callVars, ioVars, now, uuidCount>>

----------------------------------------------------------------------------
(* utils/storage.ts and SettingsPanel.tsx: direct load, export, import *)

\* JSON.stringify(data, null, 2): the indented text of a backup file, which
\* parses to the same value as the compact text
JSONStringifyPretty(data) == [parses |-> TRUE, value |-> data, indent |-> 2]

\* a text that JSON.parse throws on
Unparsable == [parses |-> FALSE]

\* const data = loadData()
call_loadData ==
    LET loaded == loadData
    IN  /\ returned' = loaded.data
        /\ storage' = loaded.slot
        /\ lastOp' = [op |-> "loadData", id |-> NULL, found |-> FALSE]
        /\ UNCHANGED <<storeVars, selVars, envVars, uiVars, arg, ioVars, now,
                       uuidCount, edited>>

\* handleExport: exportData() writes the text of loadData() to a file
handleExport ==
    LET loaded == loadData
    IN  /\ exportedFile' = <<JSONStringifyPretty(loaded.data)>>
        /\ storage' = loaded.slot
        /\ statusMessage' = "success"
        /\ lastOp' = [op |-> "exportData", id |-> NULL, found |-> FALSE]
        /\ UNCHANGED <<storeVars, selVars, envVars, uiVars, callVars, thrown,
                       imports, now, uuidCount, edited>>

\* !data.servers || !data.channels || !data.messages, after JSON.parse
Importable(text) ==
    /\ text.parses
    /\ Has(text.value, "servers")
    /\ Has(text.value, "channels")
    /\ Has(text.value, "messages")

\* handleFileChange up to its await: importData(file) creates the promise
\* and starts the FileReader; startedAt records how many operations came
\* before
handleFileChange(file) ==
    /\ imports' = Append(imports, [file |-> file, phase |-> "reading",
                                    resolved |-> 0, rejected |-> 0,
                                    shown |-> NULL, doneAt |-> 0,
                                    startedAt |-> steps])
    /\ lastOp' = [op |-> "importData", id |-> NULL, found |-> FALSE]
    /\ UNCHANGED <<storeVars, selVars, storage, envVars, uiVars, callVars,
                   thrown, exportedFile, statusMessage, now, uuidCount, edited>>

\* the number of imports that have settled
NumberDone == Cardinality({j \in 1..Len(imports) : imports[j].phase = "done"})

\* the import has settled and handleFileChange has run to its end; doneAt
\* records its place in the order of completion
Settled(import, outcome) ==
    [import EXCEPT !.phase = "done",
                   !.doneAt = NumberDone + 1,
                   !.resolved = IF outcome = "success" THEN @ + 1 ELSE @,
                   !.rejected = IF outcome = "error" THEN @ + 1 ELSE @,
                   !.shown = outcome]

\* variant: the handler shows the message without calling importFromData
importResolved_skipsImportFromData(i) ==
    /\ storage' = saveData(imports[i].file.value)
    /\ lastOp' = [op |-> "importFromData", id |-> NULL, found |-> FALSE]
    /\ imports' = [imports EXCEPT ![i] = Settled(@, "success")]
    /\ statusMessage' = "success"
    /\ UNCHANGED <<storeVars, selVars, edited>>

\* a valid file: saveData(data) and resolve(data) in reader.onload, then
\* importFromData(data) and the success message in handleFileChange
importResolved(i) ==
    /\ importFromDataOn(saveData(imports[i].file.value), imports[i].file.value)
    /\ imports' = [imports EXCEPT ![i] = Settled(@, "success")]
    /\ statusMessage' = "success"

\* variant: the parsed value is saved before it is validated
readerOnload_savesFirst(i) ==
    /\ imports[i].phase = "reading"
    /\ LET text == imports[i].file
       IN  IF Importable(text)
           THEN /\ importFromDataOn(saveData(text.value), text.value)
                /\ imports' = [imports EXCEPT ![i] = Settled(@, "success")]
                /\ statusMessage' = "success"
           ELSE /\ imports' = [imports EXCEPT ![i] = Settled(@, "error")]
                /\ statusMessage' = "error"
                /\ storage' = IF text.parses THEN saveData(text.value) ELSE storage
                /\ lastOp' = [op |-> "importData", id |-> NULL, found |-> FALSE]
                /\ UNCHANGED <<storeVars, selVars, edited>>
    /\ UNCHANGED <<envVars, uiVars, callVars, thrown, exportedFile, now,
                   uuidCount>>

\* reader.onload of import i, and handleFileChange from its await on, which
\* runs as a microtask right after: parse, validate, saveData(data),
\* resolve(data), then importFromData(data) and the success message; or
\* reject(error) and the error message
readerOnload(i) ==
    /\ imports[i].phase = "reading"
    /\ IF Importable(imports[i].file)
       THEN importResolved(i)
       ELSE /\ imports' = [imports EXCEPT ![i] = Settled(@, "error")]
            /\ statusMessage' = "error"
            /\ lastOp' = [op |-> "importData", id |-> NULL, found |-> FALSE]
            /\ UNCHANGED <<storeVars, selVars, storage, edited>>
    /\ UNCHANGED <<envVars, uiVars, callVars, thrown, exportedFile, now,
                   uuidCount>>

\* variant: the promise has no onerror handler and never settles
readerOnerror_ignored(i) ==
    /\ imports[i].phase = "reading"
    /\ imports' = [imports EXCEPT ![i] = [@ EXCEPT !.phase = "lost"]]
    /\ lastOp' = [op |-> "importData", id |-> NULL, found |-> FALSE]
    /\ UNCHANGED <<storeVars, selVars, storage, envVars, uiVars, callVars,
                   thrown, exportedFile, statusMessage, now, uuidCount, edited>>

\* reader.onerror of import i: reject(new Error(...)), and handleFileChange's
\* catch
readerOnerror(i) ==
    /\ imports[i].phase = "reading"
    /\ imports' = [imports EXCEPT ![i] = Settled(@, "error")]
    /\ statusMessage' = "error"
    /\ lastOp' = [op |-> "importData", id |-> NULL, found |-> FALSE]
    /\ UNCHANGED <<storeVars, selVars, storage, envVars, uiVars, callVars,
                   thrown, exportedFile, now, uuidCount, edited>>

\* setTimeout(() => setMessage(null), 3000), set after every success
\* message: it clears whatever message is shown when it fires
clearMessage ==
    /\ exportedFile # NoItem
       \/ \E i \in 1..Len(imports) : imports[i].shown = "success"
    /\ statusMessage # NULL
    /\ statusMessage' = NULL
    /\ UNCHANGED <<storeVars, selVars, storage, envVars, uiVars, callVars,
                   thrown, exportedFile, imports, now, uuidCount, lastOp,
                   edited>>

\* variant: the slot is not re-seeded before the store reloads
handleReset_skipsResetData ==
    /\ LoadAndSetOn(storage, "handleReset")
    /\ statusMessage' = IF thrown' = NULL THEN "success" ELSE statusMessage
    /\ UNCHANGED <<envVars, uiVars, callVars, exportedFile, imports, now,
                   uuidCount>>

\* handleReset, confirmed by the user: resetData(), loadFromStorage() and
\* the success message
handleReset ==
    /\ LoadAndSetOn(resetData, "handleReset")
    /\ statusMessage' = IF thrown' = NULL THEN "success" ELSE statusMessage
    /\ UNCHANGED <<envVars, uiVars, callVars, exportedFile, imports, now,
                   uuidCount>>

----------------------------------------------------------------------------
(* environment *)

\* the clock advances between operations
Tick ==
    /\ now < MaxTime
    /\ now' = now + 1
    /\ UNCHANGED <<storeVars, selVars, storage, envVars, uiVars, callVars,
                   ioVars, uuidCount, lastOp, edited>>

----------------------------------------------------------------------------
(* store/index.ts: derived views *)

\* Array.prototype.sort((a, b) => Key(a) - Key(b)): ascending by Key and
\* stable, so an element lands after the smaller ones and after the equal
\* ones that preceded it
SortBy(arr, Key(_)) ==
    LET n == Len(arr)
        Position(i) ==
            1 + Cardinality({j \in 1..n : Key(arr[j]) < Key(arr[i])})
              + Cardinality({j \in 1..(i - 1) : Key(arr[j]) = Key(arr[i])})
    IN  [p \in 1..n |-> arr[CHOOSE i \in 1..n : Position(i) = p]]

\* message.tags.forEach over messages.forEach: every stored tag occurrence,
\* in store order
RECURSIVE TagOccurrences(_)
TagOccurrences(msgs) ==
    IF msgs = <<>> THEN <<>>
    ELSE TagOccurrences(SubSeq(msgs, 1, Len(msgs) - 1))
         \o (IF Has(msgs[Len(msgs)], "tags") THEN msgs[Len(msgs)].tags ELSE <<>>)

\* variant: the statistics are returned in first-occurrence order, unsorted
getAllTags_unsorted ==
    LET occurrences == TagOccurrences(messages)
        keys == SetInsertionOrder(occurrences)
    IN  [i \in 1..Len(keys) |->
            [tag |-> keys[i],
             count |-> Cardinality({j \in 1..Len(occurrences) :
                                       occurrences[j] = keys[i]})]]

getAllTags ==
    LET occurrences == TagOccurrences(messages)
        keys == SetInsertionOrder(occurrences)
        tagStats ==
            [i \in 1..Len(keys) |->
                [tag |-> keys[i],
                 count |-> Cardinality({j \in 1..Len(occurrences) :
                                           occurrences[j] = keys[i]})]]
    IN  SortBy(tagStats, LAMBDA a : 0 - a.count)

\* String.prototype.trim over the space character
trim(s) ==
    LET kept == {i \in 1..Len(s) : s[i] # " "}
    IN  IF kept = {} THEN <<>>
        ELSE SubSeq(s, CHOOSE i \in kept : \A j \in kept : i <= j,
                       CHOOSE i \in kept : \A j \in kept : i >= j)

\* String.prototype.includes
StrIncludes(s, q) ==
    \E i \in 0..(Len(s) - Len(q)) : SubSeq(s, i + 1, i + Len(q)) = q

\* variant: a match is reported whether or not its channel and server exist
getSearchResults_keepsOrphans ==
    LET query == trim(LowerStr(searchQuery))
        ChannelOf(m) == FindIndex(channels, LAMBDA c : c.id = m.channelId)
        ServerOf(c) == FindIndex(servers, LAMBDA sv : sv.id = c.serverId)
        matching == Filter(messages, LAMBDA m : StrIncludes(LowerStr(m.content), query))
        results ==
            Map(matching, LAMBDA m :
                IF ChannelOf(m) = 0 THEN [message |-> m]
                ELSE IF ServerOf(channels[ChannelOf(m)]) = 0
                     THEN [message |-> m, channel |-> channels[ChannelOf(m)]]
                     ELSE [message |-> m,
                           channel |-> channels[ChannelOf(m)],
                           server  |-> servers[ServerOf(channels[ChannelOf(m)])]])
    IN  IF query = <<>> THEN <<>>
        ELSE SortBy(results, LAMBDA r : 0 - r.message.createdAt)

getSearchResults ==
    LET query == trim(LowerStr(searchQuery))
        ChannelOf(m) == FindIndex(channels, LAMBDA c : c.id = m.channelId)
        ServerOf(c) == FindIndex(servers, LAMBDA sv : sv.id = c.serverId)
        matching ==
            Filter(messages, LAMBDA m :
                /\ StrIncludes(LowerStr(m.content), query)
                /\ ChannelOf(m) # 0
                /\ ServerOf(channels[ChannelOf(m)]) # 0)
        results ==
            Map(matching, LAMBDA m :
                [message |-> m,
                 channel |-> channels[ChannelOf(m)],
                 server  |-> servers[ServerOf(channels[ChannelOf(m)])]])
    IN  IF query = <<>> THEN <<>>
        ELSE SortBy(results, LAMBDA r : 0 - r.message.createdAt)

\* variant: pins are listed across all channels
getPinnedMessages_global ==
    SortBy(Filter(messages, LAMBDA m : Flag(m, "isPinned")),
           LAMBDA m : m.createdAt)

getPinnedMessages ==
    SortBy(Filter(messages, LAMBDA m :
               Flag(m, "isPinned") /\ m.channelId = selectedChannelId),
           LAMBDA m : m.createdAt)

\* variant: the bookmarks are sorted like the channel list, oldest first
getBookmarkedMessages_ascending ==
    SortBy(Filter(messages, LAMBDA m : Flag(m, "isBookmarked")),
           LAMBDA m : m.createdAt)

getBookmarkedMessages ==
    SortBy(Filter(messages, LAMBDA m : Flag(m, "isBookmarked")),
           LAMBDA m : 0 - m.createdAt)

\* variant: the tag filter lets untagged messages through
useCurrentMessages_keepsUntagged ==
    SortBy(Filter(messages, LAMBDA m :
               /\ m.channelId = selectedChannelId
               /\ ~(selectedTag # <<>> /\ Has(m, "tags")
                                       /\ ~Includes(m.tags, selectedTag))),
           LAMBDA m : m.createdAt)

useCurrentMessages ==
    SortBy(Filter(messages, LAMBDA m :
               /\ m.channelId = selectedChannelId
               /\ ~(selectedTag # <<>> /\ (~Has(m, "tags")
                                           \/ ~Includes(m.tags, selectedTag)))),
           LAMBDA m : m.createdAt)

----------------------------------------------------------------------------
(* Calls of the derived views by the components *)

\* a call that only reads: the caller receives value, the store is untouched
Returns(op, value) ==
    /\ returned' = value
    /\ lastOp' = [op |-> op, id |-> NULL, found |-> FALSE]
    /\ UNCHANGED <<storeVars, selVars, storage, envVars, uiVars, arg, now,
                   uuidCount, edited, ioVars>>

call_getSearchResults == Returns("getSearchResults", getSearchResults)

call_getAllTags == Returns("getAllTags", getAllTags)

call_getPinnedMessages == Returns("getPinnedMessages", getPinnedMessages)

\* variant: state.messages.sort(...) without the filter that copies the array
call_getBookmarkedMessages_sortsInPlace ==
    /\ messages' = SortBy(messages, LAMBDA m : 0 - m.createdAt)
    /\ returned' = Filter(messages', LAMBDA m : Flag(m, "isBookmarked"))
    /\ lastOp' = [op |-> "getBookmarkedMessages", id |-> NULL, found |-> FALSE]
    /\ UNCHANGED <<servers, channels, selVars, storage, envVars, uiVars, arg,
                   now, uuidCount, edited, ioVars>>

call_getBookmarkedMessages ==
    Returns("getBookmarkedMessages", getBookmarkedMessages)

call_useCurrentMessages == Returns("useCurrentMessages", useCurrentMessages)

----------------------------------------------------------------------------
(* Inputs explored *)

\* the name given to a new server or channel, and the name of a rename
NewName == <<"a">>
Renamed == <<"B">>
\* the icon argument of addServer: '' / undefined, or a character
IconArgs == {<<>>, <<"1">>}
\* message texts: one tag, two tags with a repeat in another case, no tag
Contents == {<<"#", "b">>, <<"#", "A", " ", "#", "b", "#", "a">>, <<"a", "!">>}
\* Partial<Server> / Partial<Channel> as the UI builds it: { name }
NameUpdates == {[name |-> Renamed]}

\* ids a caller can hold: of the entities of a collection, or of none
IdArgs(arr) == Ids(arr) \cup {"no-such-id"}

----------------------------------------------------------------------------
(* The store after start-up: create() followed by App's loadFromStorage()   *)
(* on an empty slot, which seeds and saves the default snapshot             *)

Init ==
    /\ now = 1
    /\ storageFails = FALSE
    /\ tagRegexLastIndex = 0
    /\ uuidCount = 0
    /\ steps = 0
    /\ failedOps = 0
    /\ servers = getDefaultData.servers
    /\ channels = getDefaultData.channels
    /\ messages = getDefaultData.messages
    /\ selectedServerId = "default-server"
    /\ selectedChannelId = "default-channel"
    /\ storage = <<JSONStringify(getDefaultData)>>
    /\ lastOp = [op |-> "loadFromStorage", id |-> NULL, found |-> FALSE]
    /\ edited = {}
    /\ selectedTag = NoTag
    /\ searchQuery = <<>>
    /\ arg = <<>>
    /\ returned = <<>>
    /\ thrown = NULL
    /\ exportedFile = NoItem
    /\ imports = <<>>
    /\ statusMessage = NULL

\* one more operation within a budget
Counted(budget) ==
    /\ steps < budget
    /\ steps' = steps + 1
    /\ failedOps' = IF storageFails THEN failedOps + 1 ELSE failedOps

----------------------------------------------------------------------------
(* Spec: the entity hierarchy.  Servers, channels and messages are added    *)
(* as the UI adds them (a channel to an existing server, a message to an    *)
(* existing channel), renamed, deleted and selected.                        *)

Next ==
    \/ Counted(MaxSteps) /\ \E icon \in IconArgs : addServer(NewName, icon)
    \/ Counted(MaxSteps) /\ \E id \in IdArgs(servers), updates \in NameUpdates :
                                 updateServer(id, updates)
    \/ Counted(MaxSteps) /\ \E id \in IdArgs(servers) : deleteServer(id)
    \/ Counted(MaxSteps) /\ \E serverId \in Ids(servers) : addChannel(serverId, NewName)
    \/ Counted(MaxSteps) /\ \E id \in IdArgs(channels), updates \in NameUpdates :
                                 updateChannel(id, updates)
    \/ Counted(MaxSteps) /\ \E id \in IdArgs(channels) : deleteChannel(id)
    \/ Counted(MaxSteps) /\ \E channelId \in Ids(channels) :
                                 addMessage(channelId, <<"#", "b">>)
    \/ Counted(MaxSteps) /\ \E id \in IdArgs(messages) : deleteMessage(id)
    \/ Counted(MaxSteps) /\ \E id \in Ids(servers) \cup {NULL} : selectServer(id)
    \/ Counted(MaxSteps) /\ \E id \in Ids(channels) \cup {NULL} : selectChannel(id)

Spec == Init /\ [][Next]_vars

----------------------------------------------------------------------------
(* SpecMsg: the messages of the seeded server.  Messages are added, edited, *)
(* pinned, bookmarked and deleted, directly or by cascade, while the clock  *)
(* advances.                                                                *)

NextMsg ==
    \/ Counted(MaxMsgSteps) /\ \E channelId \in Ids(channels), content \in Contents :
                                    addMessage(channelId, content)
    \/ Counted(MaxMsgSteps) /\ \E id \in IdArgs(messages), content \in Contents :
                                    updateMessage(id, content)
    \/ Counted(MaxMsgSteps) /\ \E id \in IdArgs(messages) : deleteMessage(id)
    \/ Counted(MaxMsgSteps) /\ \E id \in IdArgs(messages) : togglePin(id)
    \/ Counted(MaxMsgSteps) /\ \E id \in IdArgs(messages) : toggleBookmark(id)
    \/ Counted(MaxMsgSteps) /\ \E id \in IdArgs(channels) : deleteChannel(id)
    \/ Counted(MaxMsgSteps) /\ \E id \in IdArgs(servers) : deleteServer(id)
    \/ Tick /\ UNCHANGED countVars

SpecMsg == Init /\ [][NextMsg]_vars

----------------------------------------------------------------------------
(* SpecAll: every store operation, importFromData included, on ids of any   *)
(* collection                                                               *)

\* parsed backup files handed to importFromData: a backup of an older
\* version, and a backup of an emptied store that carries no version
ImportFiles ==
    {[servers  |-> <<[id |-> "imp-server", name |-> NewName, icon |-> <<"A">>,
                      createdAt |-> 1]>>,
      channels |-> <<[id |-> "imp-channel", serverId |-> "imp-server",
                      name |-> NewName, createdAt |-> 1]>>,
      messages |-> <<[id |-> "imp-message", channelId |-> "imp-channel",
                      content |-> <<"#", "b">>, createdAt |-> 1,
                      tags |-> <<<<"b">>>>]>>,
      version  |-> 0],
     [servers |-> <<>>, channels |-> <<>>, messages |-> <<>>]}

AnyId == Ids(servers) \cup Ids(channels) \cup Ids(messages) \cup {"no-such-id"}

NextAll ==
    \/ Counted(MaxAllSteps) /\ \E icon \in IconArgs : addServer(NewName, icon)
    \/ Counted(MaxAllSteps) /\ \E id \in AnyId, updates \in NameUpdates :
                                    updateServer(id, updates)
    \/ Counted(MaxAllSteps) /\ \E id \in AnyId : deleteServer(id)
    \/ Counted(MaxAllSteps) /\ \E serverId \in Ids(servers) :
                                    addChannel(serverId, NewName)
    \/ Counted(MaxAllSteps) /\ \E id \in AnyId, updates \in NameUpdates :
                                    updateChannel(id, updates)
    \/ Counted(MaxAllSteps) /\ \E id \in AnyId : deleteChannel(id)
    \/ Counted(MaxAllSteps) /\ \E channelId \in Ids(channels), content \in Contents :
                                    addMessage(channelId, content)
    \/ Counted(MaxAllSteps) /\ \E id \in AnyId, content \in Contents :
                                    updateMessage(id, content)
    \/ Counted(MaxAllSteps) /\ \E id \in AnyId : deleteMessage(id)
    \/ Counted(MaxAllSteps) /\ \E id \in AnyId : togglePin(id)
    \/ Counted(MaxAllSteps) /\ \E id \in AnyId : toggleBookmark(id)
    \/ Counted(MaxAllSteps) /\ \E id \in Ids(servers) \cup {NULL} : selectServer(id)
    \/ Counted(MaxAllSteps) /\ \E id \in Ids(channels) \cup {NULL} : selectChannel(id)
    \/ Counted(MaxAllSteps) /\ \E data \in ImportFiles : importFromData(data)
    \/ Counted(MaxAllSteps) /\ loadFromStorage
    \/ Counted(MaxAllSteps) /\ resetToDefault

SpecAll == Init /\ [][NextAll]_vars

----------------------------------------------------------------------------
(* SpecView: the derived views.  A backup is imported, messages are added,  *)
(* pinned and bookmarked, a channel, a tag filter and a search query are    *)
(* chosen, servers and channels are deleted, and the components read the    *)
(* views.                                                                   *)

\* number of operations explored from the start-up state, in SpecView
MaxViewSteps == 3

\* parsed backup files handed to importFromData.  The first holds two
\* channels whose messages are not in createdAt order and share timestamps.
\* The second was edited by hand: its first channel names a server that is
\* not in the file, and one message names a channel that is not in the file.
ViewFiles ==
    {[servers  |-> <<[id |-> "bk-server", name |-> NewName, icon |-> <<"A">>,
                      createdAt |-> 0]>>,
      channels |-> <<[id |-> "bk-general", serverId |-> "bk-server",
                      name |-> NewName, createdAt |-> 0],
                     [id |-> "bk-notes", serverId |-> "bk-server",
                      name |-> Renamed, createdAt |-> 0]>>,
      messages |-> <<[id |-> "bk-m1", channelId |-> "bk-general",
                      content |-> <<"#", "b">>, createdAt |-> 1,
                      tags |-> <<<<"b">>>>, isPinned |-> TRUE,
                      isBookmarked |-> TRUE],
                     [id |-> "bk-m2", channelId |-> "bk-general",
                      content |-> <<"A", "!">>, createdAt |-> 0,
                      isBookmarked |-> TRUE],
                     [id |-> "bk-m3", channelId |-> "bk-notes",
                      content |-> <<"#", "a", "#", "B">>, createdAt |-> 1,
                      tags |-> <<<<"a">>, <<"b">>>>, isPinned |-> TRUE,
                      isBookmarked |-> TRUE],
                     [id |-> "bk-m4", channelId |-> "bk-general",
                      content |-> <<"b", " ", "#", "a">>, createdAt |-> 1,
                      tags |-> <<<<"a">>>>]>>,
      version  |-> 1],
     [servers  |-> <<[id |-> "bk-server", name |-> NewName, icon |-> <<"A">>,
                      createdAt |-> 0]>>,
      channels |-> <<[id |-> "lost-channel", serverId |-> "ghost-server",
                      name |-> Renamed, createdAt |-> 0],
                     [id |-> "bk-general", serverId |-> "bk-server",
                      name |-> NewName, createdAt |-> 0]>>,
      messages |-> <<[id |-> "bk-m1", channelId |-> "bk-general",
                      content |-> <<"#", "b">>, createdAt |-> 1,
                      tags |-> <<<<"b">>>>],
                     [id |-> "lost-m1", channelId |-> "ghost-channel",
                      content |-> <<"#", "b">>, createdAt |-> 0,
                      tags |-> <<<<"b">>>>, isPinned |-> TRUE,
                      isBookmarked |-> TRUE],
                     [id |-> "lost-m2", channelId |-> "lost-channel",
                      content |-> <<"#", "a">>, createdAt |-> 1,
                      tags |-> <<<<"a">>>>, isPinned |-> TRUE,
                      isBookmarked |-> TRUE]>>,
      version  |-> 1]}

\* what the search box holds: nothing, blanks, a word in another case, a
\* word followed by a blank, a word no message has
Queries == {<<>>, <<" ">>, <<"B">>, <<"b", " ">>, <<"z">>}

\* the tag chosen in the tag cloud, or none
TagArgs == {NoTag, <<"a">>, <<"b">>}

\* ids a caller can read off the store: of its entities, and those its
\* channels and messages refer to
HeldIds ==
    AnyId \cup {channels[i].serverId : i \in 1..Len(channels)}
          \cup {messages[i].channelId : i \in 1..Len(messages)}

NextView ==
    \/ Counted(MaxViewSteps) /\ \E data \in ViewFiles : importFromData(data)
    \/ Counted(MaxViewSteps) /\ \E channelId \in Ids(channels) :
                                     addMessage(channelId, <<"#", "b">>)
    \/ Counted(MaxViewSteps) /\ \E id \in Ids(messages) : togglePin(id)
    \/ Counted(MaxViewSteps) /\ \E id \in Ids(messages) : toggleBookmark(id)
    \/ Counted(MaxViewSteps) /\ \E id \in Ids(channels) \cup {NULL} : selectChannel(id)
    \/ Counted(MaxViewSteps) /\ \E tag \in TagArgs : selectTag(tag)
    \/ Counted(MaxViewSteps) /\ \E query \in Queries : setSearchQuery(query)
    \/ Counted(MaxViewSteps) /\ \E id \in HeldIds : deleteServer(id)
    \/ Counted(MaxViewSteps) /\ \E id \in HeldIds : deleteChannel(id)
    \/ Counted(MaxViewSteps) /\ call_getSearchResults
    \/ Counted(MaxViewSteps) /\ call_getAllTags
    \/ Counted(MaxViewSteps) /\ call_getPinnedMessages
    \/ Counted(MaxViewSteps) /\ call_getBookmarkedMessages
    \/ Counted(MaxViewSteps) /\ call_useCurrentMessages

SpecView == Init /\ [][NextView]_vars

----------------------------------------------------------------------------
(* SpecTags: parseTags as a function of its argument.  The content is any   *)
(* string over a small alphabet up to a length, or one of the longer texts  *)
(* below; the component then calls parseTags on it.                         *)

\* length of the content strings enumerated
MaxContentLen == 5

\* the tag sign, letters in both cases, a blank and the path separator
TagAlphabet == {"#", "a", "A", "b", " ", "/"}

ContentStrings ==
    UNION {[1..n -> TagAlphabet] : n \in 0..MaxContentLen}
    \cup Contents
    \cup {<<"#", "a", " ", "#", "b", " ", "#", "a">>}

InitTags ==
    /\ now = 1
    /\ storageFails = FALSE
    /\ tagRegexLastIndex = 0
    /\ uuidCount = 0
    /\ steps = 0
    /\ failedOps = 0
    /\ servers = getDefaultData.servers
    /\ channels = getDefaultData.channels
    /\ messages = getDefaultData.messages
    /\ selectedServerId = "default-server"
    /\ selectedChannelId = "default-channel"
    /\ storage = <<JSONStringify(getDefaultData)>>
    /\ lastOp = [op |-> "loadFromStorage", id |-> NULL, found |-> FALSE]
    /\ edited = {}
    /\ selectedTag = NoTag
    /\ searchQuery = <<>>
    /\ arg \in ContentStrings
    /\ returned = <<>>
    /\ thrown = NULL
    /\ exportedFile = NoItem
    /\ imports = <<>>
    /\ statusMessage = NULL

\* const tags = parseTags(content): matchAll works on a clone of TAG_REGEX
\* and leaves TAG_REGEX.lastIndex as it was
call_parseTags ==
    /\ returned' = parseTags(arg)
    /\ lastOp' = [op |-> "parseTags", id |-> NULL, found |-> FALSE]
    /\ UNCHANGED <<storeVars, selVars, storage, envVars, uiVars, arg, now,
                   uuidCount, countVars, edited, ioVars>>

\* variant: a tag part carries match[1] as written, without toLowerCase
call_parseContentWithTags_keepsCase ==
    /\ returned' =
           Map(parseContentWithTags(arg), LAMBDA part :
               IF part.type = "tag"
               THEN [part EXCEPT !.tag = SubSeq(part.content, 2, Len(part.content))]
               ELSE part)
    /\ lastOp' = [op |-> "parseContentWithTags", id |-> NULL, found |-> FALSE]
    /\ UNCHANGED <<storeVars, selVars, storage, envVars, uiVars, arg, now,
                   uuidCount, countVars, edited, ioVars>>

\* const parts = parseContentWithTags(content): the regex is a fresh one
call_parseContentWithTags ==
    /\ returned' = parseContentWithTags(arg)
    /\ lastOp' = [op |-> "parseContentWithTags", id |-> NULL, found |-> FALSE]
    /\ UNCHANGED <<storeVars, selVars, storage, envVars, uiVars, arg, now,
                   uuidCount, countVars, edited, ioVars>>

NextTags ==
    \/ call_parseTags
    \/ call_parseContentWithTags

SpecTags == InitTags /\ [][NextTags]_vars

----------------------------------------------------------------------------
(* SpecRegex: the three functions of utils/tags.ts called in any order, on  *)
(* any contents, in one process.  TAG_REGEX is shared by parseTags and      *)
(* hasTags and lives as long as the module.                                 *)

\* length of the content strings enumerated in SpecRegex
MaxRegexLen == 2

RegexContents == UNION {[1..n -> TagAlphabet] : n \in 0..MaxRegexLen}

\* the caller turns to another content; nothing has been computed on it yet
setContent(content) ==
    /\ arg' = content
    /\ returned' = <<>>
    /\ lastOp' = [op |-> "setContent", id |-> NULL, found |-> FALSE]
    /\ UNCHANGED <<storeVars, selVars, storage, envVars, uiVars, ioVars, now,
                   uuidCount, countVars, edited>>

\* hasTags(content): test() leaves TAG_REGEX.lastIndex at the end of the
\* match it found, or at 0
call_hasTags ==
    /\ returned' = hasTags(arg)
    /\ tagRegexLastIndex' = hasTagsLastIndex(arg)
    /\ lastOp' = [op |-> "hasTags", id |-> NULL, found |-> FALSE]
    /\ UNCHANGED <<storeVars, selVars, storage, storageFails, uiVars, arg,
                   now, uuidCount, countVars, edited, ioVars>>

NextRegex ==
    \/ \E content \in RegexContents : setContent(content)
    \/ call_parseTags
    \/ call_parseContentWithTags
    \/ call_hasTags

SpecRegex == Init /\ [][NextRegex]_vars

----------------------------------------------------------------------------
(* SpecStore: start-up, backup and restore.  The store is as create() left  *)
(* it and the slot holds what an earlier session, another version of the    *)
(* application or the user left there.  The application loads, servers and  *)
(* messages are added, backups are exported and imported.                   *)

\* number of operations the user starts, in SpecStore
MaxStoreSteps == 4
\* number of imports started
MaxImports == 1

\* a snapshot written by an earlier session
SavedSnapshot ==
    [servers  |-> <<[id |-> "old-server", name |-> Renamed, icon |-> <<"B">>,
                     createdAt |-> 0]>>,
     channels |-> <<[id |-> "old-channel", serverId |-> "old-server",
                     name |-> NewName, createdAt |-> 0]>>,
     messages |-> <<[id |-> "old-message", channelId |-> "old-channel",
                     content |-> <<"#", "a">>, createdAt |-> 0,
                     tags |-> <<<<"a">>>>, isPinned |-> TRUE]>>,
     version  |-> CURRENT_VERSION]

\* what the slot holds at start-up: nothing, a snapshot of the current
\* version, one of an older version, a text that does not parse, and
\* objects that lack one of the collections
StoredPayloads ==
    {NoItem,
     <<JSONStringify(SavedSnapshot)>>,
     <<JSONStringify([SavedSnapshot EXCEPT !.version = 0])>>,
     <<Unparsable>>,
     <<JSONStringify(Without(SavedSnapshot, "servers"))>>,
     <<JSONStringify(Without(SavedSnapshot, "channels"))>>,
     <<JSONStringify(Without(SavedSnapshot, "messages"))>>}

\* the files the user can pick: the backup exported last, a backup of an
\* emptied store without version, a text that does not parse, objects that
\* lack a collection
Files ==
    Elems(exportedFile)
    \cup {JSONStringifyPretty([servers |-> <<>>, channels |-> <<>>,
                               messages |-> <<>>]),
          Unparsable,
          JSONStringifyPretty(Without(SavedSnapshot, "servers")),
          JSONStringifyPretty(Without(SavedSnapshot, "messages"))}

\* create(): the initial state of the store, before App has mounted
InitStore ==
    /\ now = 1
    /\ storageFails = FALSE
    /\ tagRegexLastIndex = 0
    /\ uuidCount = 0
    /\ steps = 0
    /\ failedOps = 0
    /\ servers = <<>>
    /\ channels = <<>>
    /\ messages = <<>>
    /\ selectedServerId = NULL
    /\ selectedChannelId = NULL
    /\ storage \in StoredPayloads
    /\ lastOp = [op |-> "create", id |-> NULL, found |-> FALSE]
    /\ edited = {}
    /\ selectedTag = NoTag
    /\ searchQuery = <<>>
    /\ arg = <<>>
    /\ returned = <<>>
    /\ thrown = NULL
    /\ exportedFile = NoItem
    /\ imports = <<>>
    /\ statusMessage = NULL

\* React has not unmounted the application after an uncaught error
Alive == thrown = NULL

\* App has mounted and its effect has called loadFromStorage
Mounted == steps > 0

\* the FileReader of import i fires its load or its error event
FileRead(i) ==
    /\ i \in 1..Len(imports)
    /\ readerOnload(i) \/ readerOnerror(i)
    /\ UNCHANGED countVars

NextStore ==
    \/ ~Mounted /\ Counted(MaxStoreSteps) /\ loadFromStorage
    \/ UNCHANGED countVars /\ call_loadData
    \/ Mounted /\ Alive /\ Counted(MaxStoreSteps) /\ addServer(NewName, <<>>)
    \/ Mounted /\ Alive /\ Counted(MaxStoreSteps)
               /\ \E channelId \in Ids(channels) :
                      addMessage(channelId, <<"#", "b">>)
    \/ Mounted /\ Alive /\ Counted(MaxStoreSteps) /\ handleExport
    \/ Mounted /\ Alive /\ Counted(MaxStoreSteps) /\ handleReset
    \/ Mounted /\ Alive /\ Counted(MaxStoreSteps) /\ Len(imports) < MaxImports
               /\ \E file \in Files : handleFileChange(file)
    \/ UNCHANGED countVars /\ \E i \in 1..Len(imports) : readerOnload(i)
    \/ UNCHANGED countVars /\ \E i \in 1..Len(imports) : readerOnerror(i)
    \/ UNCHANGED countVars /\ clearMessage

SpecStore == InitStore /\ [][NextStore]_vars

\* readAsText always ends with a load or an error event, and the event loop
\* runs its handler and the microtask that resumes handleFileChange
FairStore == SpecStore /\ \A i \in 1..MaxImports : WF_vars(FileRead(i))

----------------------------------------------------------------------------
(* SpecQuota: the store after start-up, with a storage whose writes start   *)
(* and stop failing (quota exceeded, storage unavailable) while servers and *)
(* messages are added, pinned and deleted.                                  *)

\* number of store operations in SpecQuota
MaxQuotaSteps == 3

\* localStorage.setItem starts to throw
setItemStartsFailing ==
    /\ ~storageFails
    /\ storageFails' = TRUE
    /\ UNCHANGED <<storeVars, selVars, storage, tagRegexLastIndex, uiVars,
                   callVars, ioVars, now, uuidCount, lastOp, edited>>

\* localStorage.setItem works again
setItemWorksAgain ==
    /\ storageFails
    /\ storageFails' = FALSE
    /\ UNCHANGED <<storeVars, selVars, storage, tagRegexLastIndex, uiVars,
                   callVars, ioVars, now, uuidCount, lastOp, edited>>

NextQuota ==
    \/ Counted(MaxQuotaSteps) /\ addServer(NewName, <<>>)
    \/ Counted(MaxQuotaSteps) /\ \E channelId \in Ids(channels), content \in Contents :
                                      addMessage(channelId, content)
    \/ Counted(MaxQuotaSteps) /\ \E id \in IdArgs(messages) : deleteMessage(id)
    \/ Counted(MaxQuotaSteps) /\ \E id \in IdArgs(messages) : togglePin(id)
    \/ UNCHANGED countVars /\ setItemStartsFailing
    \/ UNCHANGED countVars /\ setItemWorksAgain

SpecQuota == Init /\ [][NextQuota]_vars

----------------------------------------------------------------------------
(* SpecRace: the store after start-up; backups are picked for import while  *)
(* earlier imports are still reading their files, and servers and messages  *)
(* are added and deleted in between.  File reads complete in any order.     *)

\* number of operations the user starts, in SpecRace
MaxRaceSteps == 3
\* number of imports started in SpecRace
MaxPending == 2

\* the files picked: a backup of an older version, a backup of the current
\* version, a backup of an emptied store without version, a text that does
\* not parse
RaceFiles ==
    {JSONStringifyPretty(f) : f \in ImportFiles}
    \cup {JSONStringifyPretty(SavedSnapshot), Unparsable}

NextRace ==
    \/ Counted(MaxRaceSteps) /\ Len(imports) < MaxPending
                             /\ \E file \in RaceFiles : handleFileChange(file)
    \/ Counted(MaxRaceSteps) /\ addServer(NewName, <<>>)
    \/ Counted(MaxRaceSteps) /\ \E channelId \in Ids(channels) :
                                     addMessage(channelId, <<"#", "b">>)
    \/ Counted(MaxRaceSteps) /\ \E id \in Ids(servers) : deleteServer(id)
    \/ UNCHANGED countVars /\ \E i \in 1..Len(imports) : readerOnload(i)
    \/ UNCHANGED countVars /\ \E i \in 1..Len(imports) : readerOnerror(i)

SpecRace == Init /\ [][NextRace]_vars

----------------------------------------------------------------------------
(* SpecUI: the operations as the components issue them.  ServerList offers  *)
(* every server, ChannelList the channels of the selected server, the       *)
(* search and bookmark panels the channel of a message; the application is  *)
(* restarted, backups are imported and the data is reset.                   *)

\* number of operations the user performs in SpecUI
MaxUISteps == 5

\* useCurrentChannels: the channels ChannelList shows, those of the selected
\* server; ChannelList shows nothing unless the selected server exists
ListedChannels ==
    IF selectedServerId \in Ids(servers)
    THEN {channels[i].id : i \in {j \in 1..Len(channels) :
                                     channels[j].serverId = selectedServerId}}
    ELSE {}

\* handleAddChannel: the new channel goes to the selected server
handleAddChannel ==
    /\ selectedServerId \in Ids(servers)
    /\ addChannel(selectedServerId, NewName)

\* handleNavigate of BookmarkPanel and handleResultClick of SearchModal:
\* the channel of the message and the server of that channel are looked up,
\* then selectServer(server.id) and selectChannel(channel.id)
handleNavigate(channelId) ==
    /\ \E i \in 1..Len(channels), j \in 1..Len(servers) :
           /\ i = FindIndex(channels, LAMBDA c : c.id = channelId)
           /\ j = FindIndex(servers, LAMBDA sv : sv.id = channels[i].serverId)
           /\ selectedServerId' = servers[j].id
           /\ selectedChannelId' = channels[i].id
    /\ lastOp' = [op |-> "selectChannel", id |-> channelId, found |-> TRUE]
    /\ UNCHANGED <<storeVars, storage, envVars, uiVars, callVars, ioVars,
                   now, uuidCount, edited>>

NextUI ==
    \/ Counted(MaxUISteps) /\ loadFromStorage
    \/ Counted(MaxUISteps) /\ \E data \in ImportFiles : importFromData(data)
    \/ Counted(MaxUISteps) /\ handleReset
    \/ Counted(MaxUISteps) /\ addServer(NewName, <<>>)
    \/ Counted(MaxUISteps) /\ \E id \in Ids(servers) : deleteServer(id)
    \/ Counted(MaxUISteps) /\ \E id \in Ids(servers) : selectServer(id)
    \/ Counted(MaxUISteps) /\ handleAddChannel
    \/ Counted(MaxUISteps) /\ \E id \in ListedChannels : selectChannel(id)
    \/ Counted(MaxUISteps) /\ \E id \in ListedChannels : deleteChannel(id)
    \/ Counted(MaxUISteps) /\ \E i \in 1..Len(messages) :
                                   handleNavigate(messages[i].channelId)

SpecUI == Init /\ [][NextUI]_vars

----------------------------------------------------------------------------
(* Claims *)

\* the message of the store with the given id
MessageById(msgs, id) == msgs[CHOOSE i \in 1..Len(msgs) : msgs[i].id = id]

\* C1: every stored message carries exactly the tags parseTags derives from
\* its content, in first-occurrence order, and carries no tags field at all
\* when its content has no tag (never an empty list).
C1_TagsMatchContent ==
    \A i \in 1..Len(messages) :
        LET m == messages[i]
            derived == parseTags(m.content)
        IN  IF derived # <<>>
            THEN Has(m, "tags") /\ m.tags = derived
            ELSE ~Has(m, "tags")

\* an edit has just removed the tags of one message while another message
\* carries two tags
C1_Witness ==
    /\ lastOp.op = "updateMessage"
    /\ lastOp.found
    /\ ~Has(MessageById(messages, lastOp.id), "tags")
    /\ Has(MessageById(messages, lastOp.id), "editedAt")
    /\ \E j \in 1..Len(messages) :
           Has(messages[j], "tags") /\ messages[j].tags = <<<<"a">>, <<"b">>>>

\* C2: deleteServer(id) on an existing server removes exactly that server,
\* the channels of that server and the messages of those channels; every
\* other server, channel and message stays, unmodified and in place.
C2_DeleteServerExact ==
    [][\A id \in Ids(servers) :
          deleteServer(id) =>
              LET gone == {c \in Elems(channels) : c.serverId = id}
                  goneIds == {c.id : c \in gone}
              IN  /\ Elems(servers') = {x \in Elems(servers) : x.id # id}
                  /\ Len(servers') = Len(servers) - 1
                  /\ Elems(channels') = Elems(channels) \ gone
                  /\ Len(channels') =
                         Len(channels) - Cardinality({i \in 1..Len(channels) :
                                                         channels[i].serverId = id})
                  /\ Elems(messages') =
                         {m \in Elems(messages) : m.channelId \notin goneIds}
                  /\ Len(messages') =
                         Len(messages) - Cardinality({i \in 1..Len(messages) :
                                                         messages[i].channelId \in goneIds})
      ]_vars

\* the seeded server has just been deleted with its channel and its message,
\* and a second server with a channel and a message of its own is left
C2_Witness ==
    /\ lastOp = [op |-> "deleteServer", id |-> "default-server", found |-> TRUE]
    /\ steps = 4
    /\ uuidCount = 3
    /\ Len(servers) = 1
    /\ Len(channels) = 1 /\ channels[1].serverId = servers[1].id
    /\ Len(messages) = 1 /\ messages[1].channelId = channels[1].id

\* C3: every channel's serverId is the id of a server of the store and every
\* message's channelId is the id of a channel of the store.
C3_NoOrphans ==
    /\ \A i \in 1..Len(channels) : channels[i].serverId \in Ids(servers)
    /\ \A i \in 1..Len(messages) : messages[i].channelId \in Ids(channels)

\* a channel that held a message has just been deleted while another channel
\* with a message of its own is left
C3_Witness ==
    /\ lastOp.op = "deleteChannel"
    /\ lastOp.found
    /\ steps = 3
    /\ uuidCount = 2
    /\ Len(channels) = 1 /\ channels[1].id # "default-channel"
    /\ Len(messages) = 1 /\ messages[1].channelId = channels[1].id

\* the operations C4 names: the entity mutations and importFromData
PersistingOps ==
    {"addServer", "updateServer", "deleteServer",
     "addChannel", "updateChannel", "deleteChannel",
     "addMessage", "updateMessage", "deleteMessage",
     "togglePin", "toggleBookmark", "importFromData"}

\* C4: when a mutating operation or importFromData has completed (storage
\* writes succeeding), the slot holds a snapshot whose servers, channels and
\* messages are the store's collections as that operation left them, with
\* version 1.
C4_StoredSnapshotIsCurrent ==
    (lastOp.op \in PersistingOps /\ ~storageFails) =>
        /\ storage # NoItem
        /\ storage[1].parses
        /\ storage[1].value.servers = servers
        /\ storage[1].value.channels = channels
        /\ storage[1].value.messages = messages
        /\ storage[1].value.version = 1

\* a message has just been added to the channel of an imported backup of
\* version 0, and the slot holds the two messages
C4_Witness ==
    /\ lastOp.op = "addMessage"
    /\ Len(messages) = 2
    /\ messages[1].id = "imp-message"
    /\ storage[1].value.messages = messages
    /\ storage[1].value.version = 1

\* the tags of a content, read off the content
ContentTags(m) == Elems(parseTags(m.content))

\* C5: getAllTags has exactly one entry per tag that occurs in the content
\* of a current message, its count the number of current messages whose
\* content has the tag, in order of non-increasing count.
C5_TagStatsExact ==
    LET stats == getAllTags
    IN  /\ \A i, j \in 1..Len(stats) : stats[i].tag = stats[j].tag => i = j
        /\ {stats[i].tag : i \in 1..Len(stats)} =
               UNION {ContentTags(messages[k]) : k \in 1..Len(messages)}
        /\ \A i \in 1..Len(stats) :
               stats[i].count =
                   Cardinality({k \in 1..Len(messages) :
                                   stats[i].tag \in ContentTags(messages[k])})
        /\ \A i \in 1..(Len(stats) - 1) : stats[i].count >= stats[i + 1].count

\* tag a is the first to occur in the store, tag b is carried by more
\* messages and leads the statistics: the first message has just been edited
\* from no tag to the tags a and b
C5_Witness ==
    /\ lastOp.op = "updateMessage"
    /\ lastOp.found
    /\ lastOp.id = messages[1].id
    /\ getAllTags = <<[tag |-> <<"b">>, count |-> 2], [tag |-> <<"a">>, count |-> 1]>>
    /\ TagOccurrences(messages)[1] = <<"a">>

\* C6: deleteServer(id) clears the server selection exactly when it was id,
\* clears the channel selection exactly when the selected channel belonged
\* to server id, and keeps each selection otherwise.
C6_DeleteServerSelection ==
    [][\A id \in IdArgs(servers) :
          deleteServer(id) =>
              /\ selectedServerId' =
                     IF selectedServerId = id THEN NULL ELSE selectedServerId
              /\ selectedChannelId' =
                     IF \E c \in Elems(channels) :
                            c.id = selectedChannelId /\ c.serverId = id
                     THEN NULL ELSE selectedChannelId
      ]_vars

\* the selected server has just been deleted while the selected channel,
\* a channel of another server, stayed selected
C6_Witness ==
    /\ lastOp.op = "deleteServer"
    /\ lastOp.found
    /\ selectedServerId = NULL
    /\ selectedChannelId \in Ids(channels)

\* C7: deleteChannel(id) on an existing channel removes exactly that channel
\* and the messages of that channel, clears the channel selection exactly
\* when it was id, and leaves the servers, the server selection and every
\* other channel and message as they were.
C7_DeleteChannelExact ==
    [][\A id \in Ids(channels) :
          deleteChannel(id) =>
              /\ Elems(channels') = {c \in Elems(channels) : c.id # id}
              /\ Len(channels') = Len(channels) - 1
              /\ Elems(messages') = {m \in Elems(messages) : m.channelId # id}
              /\ Len(messages') =
                     Len(messages) - Cardinality({i \in 1..Len(messages) :
                                                     messages[i].channelId = id})
              /\ selectedChannelId' =
                     IF selectedChannelId = id THEN NULL ELSE selectedChannelId
              /\ servers' = servers
              /\ selectedServerId' = selectedServerId
      ]_vars

\* a channel that was not the selected one has just been deleted with its
\* message; the selected channel and its message are still there
C7_Witness ==
    /\ lastOp.op = "deleteChannel"
    /\ lastOp.found
    /\ steps = 3
    /\ uuidCount = 2
    /\ selectedChannelId = "default-channel"
    /\ Len(channels) = 1 /\ channels[1].id = "default-channel"
    /\ Len(messages) = 1 /\ messages[1].id = "welcome-message"

\* C8: updateMessage(id, content) on an existing message gives it the new
\* content, the tags derived from the new content and editedAt = now, and
\* changes nothing else: not its other fields, not its place, not any other
\* message, channel, server or selection.
C8_UpdateMessageFrame ==
    [][\A id \in Ids(messages), content \in Contents :
          updateMessage(id, content) =>
              /\ Len(messages') = Len(messages)
              /\ \A i \in 1..Len(messages) :
                     IF messages[i].id = id
                     THEN LET old == messages[i]
                              new == messages'[i]
                              derived == parseTags(content)
                          IN  /\ new.content = content
                              /\ new.editedAt = now
                              /\ IF derived = <<>> THEN ~Has(new, "tags")
                                 ELSE Has(new, "tags") /\ new.tags = derived
                              /\ DOMAIN new \ {"tags"} =
                                     (DOMAIN old \ {"tags"}) \cup {"editedAt"}
                              /\ \A k \in DOMAIN old \ {"content", "editedAt", "tags"} :
                                     new[k] = old[k]
                     ELSE messages'[i] = messages[i]
              /\ UNCHANGED <<servers, channels, selectedServerId,
                             selectedChannelId>>
      ]_vars

\* a pinned and bookmarked message created at time 1 has just been edited
\* at time 2, next to a message that was not
C8_Witness ==
    /\ lastOp.op = "updateMessage"
    /\ lastOp.found
    /\ Len(messages) >= 2
    /\ LET m == MessageById(messages, lastOp.id)
       IN  /\ m.createdAt = 1
           /\ m.editedAt = 2
           /\ Flag(m, "isPinned")
    /\ \E j \in 1..Len(messages) : ~Has(messages[j], "editedAt")

\* C9: a message's createdAt never changes while it is in the store; its
\* editedAt is present exactly when updateMessage has been applied to it
\* (an edit to the same content included, which keeps the tags); togglePin
\* and toggleBookmark leave editedAt as it was.
C9_Timestamps ==
    [][/\ \A i \in 1..Len(messages), j \in 1..Len(messages') :
              messages[i].id = messages'[j].id =>
                  messages'[j].createdAt = messages[i].createdAt
       /\ \A j \in 1..Len(messages') :
              Has(messages'[j], "editedAt") <=> messages'[j].id \in edited'
       /\ \A i \in 1..Len(messages) :
              updateMessage(messages[i].id, messages[i].content) =>
                  /\ messages'[i].editedAt = now
                  /\ Has(messages'[i], "tags") = Has(messages[i], "tags")
                  /\ Has(messages[i], "tags") => messages'[i].tags = messages[i].tags
       /\ \A id \in IdArgs(messages) :
              (togglePin(id) \/ toggleBookmark(id)) =>
                  \A i \in 1..Len(messages) :
                      /\ Has(messages'[i], "editedAt") = Has(messages[i], "editedAt")
                      /\ Has(messages[i], "editedAt") =>
                             messages'[i].editedAt = messages[i].editedAt
      ]_vars

\* a bookmarked message created and edited at time 1 has been pinned at
\* time 2 and still shows the time of the edit
C9_Witness ==
    /\ now = 2
    /\ lastOp.op = "togglePin"
    /\ lastOp.found
    /\ LET m == MessageById(messages, lastOp.id)
       IN  /\ m.createdAt = 1
           /\ Has(m, "editedAt") /\ m.editedAt = 1
           /\ Flag(m, "isPinned")
           /\ Flag(m, "isBookmarked")

\* C10: updateServer, updateChannel, updateMessage, deleteMessage, togglePin
\* and toggleBookmark called with an id that their collection does not hold
\* leave the three collections and both selections as they were.
C10_UnknownIdIsNoOp ==
    [][\A id \in AnyId :
          /\ (id \notin Ids(servers) /\ \E u \in NameUpdates : updateServer(id, u))
                 => UNCHANGED <<storeVars, selVars>>
          /\ (id \notin Ids(channels) /\ \E u \in NameUpdates : updateChannel(id, u))
                 => UNCHANGED <<storeVars, selVars>>
          /\ (id \notin Ids(messages) /\
                  \/ \E content \in Contents : updateMessage(id, content)
                  \/ deleteMessage(id)
                  \/ togglePin(id)
                  \/ toggleBookmark(id))
                 => UNCHANGED <<storeVars, selVars>>
      ]_vars

\* deleteMessage has just been called with the id of a channel, and the
\* seeded message and the channel are both still there
C10_Witness ==
    /\ lastOp = [op |-> "deleteMessage", id |-> "default-channel", found |-> FALSE]
    /\ "default-channel" \in Ids(channels)
    /\ Len(messages) >= 1

\* C11: deleteServer called with an id that no server has, and deleteChannel
\* called with an id that no channel has, leave the three collections and
\* both selections as they were.
C11_UnknownDeleteIsNoOp ==
    [][\A id \in HeldIds :
          /\ (id \notin Ids(servers) /\ deleteServer(id))
                 => UNCHANGED <<storeVars, selVars>>
          /\ (id \notin Ids(channels) /\ deleteChannel(id))
                 => UNCHANGED <<storeVars, selVars>>
      ]_vars

\* m and n are the same message but for the value of the flag key
SameButFlag(m, n, key) ==
    /\ m.id = n.id
    /\ Without(m, key) = Without(n, key)

\* C12: togglePin on an existing message flips its pin flag and
\* toggleBookmark its bookmark flag, and nothing else of that message or of
\* any other message changes; toggling twice gives back the flag value, an
\* absent flag counting as false; a togglePin and a toggleBookmark give the
\* same messages in either order.
C12_TogglesIndependent ==
    /\ [][\A id \in Ids(messages) :
             /\ togglePin(id) =>
                    /\ Len(messages') = Len(messages)
                    /\ \A i \in 1..Len(messages) :
                           IF messages[i].id = id
                           THEN /\ SameButFlag(messages'[i], messages[i], "isPinned")
                                /\ Flag(messages'[i], "isPinned")
                                       = ~Flag(messages[i], "isPinned")
                           ELSE messages'[i] = messages[i]
             /\ toggleBookmark(id) =>
                    /\ Len(messages') = Len(messages)
                    /\ \A i \in 1..Len(messages) :
                           IF messages[i].id = id
                           THEN /\ SameButFlag(messages'[i], messages[i], "isBookmarked")
                                /\ Flag(messages'[i], "isBookmarked")
                                       = ~Flag(messages[i], "isBookmarked")
                           ELSE messages'[i] = messages[i]
        ]_vars
    /\ [](\A id \in Ids(messages) :
             LET pinTwice == PinToggled(PinToggled(messages, id), id)
                 bookmarkTwice == BookmarkToggled(BookmarkToggled(messages, id), id)
             IN  /\ \A i \in 1..Len(messages) :
                        /\ SameButFlag(pinTwice[i], messages[i], "isPinned")
                        /\ Flag(pinTwice[i], "isPinned") = Flag(messages[i], "isPinned")
                        /\ SameButFlag(bookmarkTwice[i], messages[i], "isBookmarked")
                        /\ Flag(bookmarkTwice[i], "isBookmarked")
                               = Flag(messages[i], "isBookmarked")
                 /\ \A other \in Ids(messages) :
                        BookmarkToggled(PinToggled(messages, id), other)
                            = PinToggled(BookmarkToggled(messages, other), id))

\* the seeded message has been bookmarked and then pinned and unpinned again:
\* its pin flag is stored as false, its bookmark stands, it was never edited
C12_Witness ==
    /\ lastOp = [op |-> "togglePin", id |-> "welcome-message", found |-> TRUE]
    /\ "welcome-message" \in Ids(messages)
    /\ LET m == MessageById(messages, "welcome-message")
       IN  /\ Has(m, "isPinned") /\ ~m.isPinned
           /\ Flag(m, "isBookmarked")
           /\ ~Has(m, "editedAt")

\* C13: selectServer(id) with an id other than none selects that server and
\* the first channel, in the order of the channels array, whose serverId is
\* id, or no channel when there is none; selectServer(none) clears both
\* selections; servers, channels and messages stay as they were.
C13_SelectServer ==
    [][\A id \in Ids(servers) \cup {NULL} :
          selectServer(id) =>
              /\ UNCHANGED storeVars
              /\ IF id = NULL
                 THEN selectedServerId' = NULL /\ selectedChannelId' = NULL
                 ELSE LET own == {i \in 1..Len(channels) : channels[i].serverId = id}
                      IN  /\ selectedServerId' = id
                          /\ IF own = {}
                             THEN selectedChannelId' = NULL
                             ELSE \E i \in own :
                                      /\ \A j \in own : i <= j
                                      /\ selectedChannelId' = channels[i].id
      ]_vars

\* the seeded server has a second channel, and selecting the server has just
\* selected the first of its channels
C13_Witness ==
    /\ lastOp = [op |-> "selectServer", id |-> "default-server", found |-> TRUE]
    /\ Cardinality({i \in 1..Len(channels) :
                       channels[i].serverId = "default-server"}) >= 2
    /\ selectedServerId = "default-server"
    /\ selectedChannelId = channels[1].id

\* the position in messages of a message of the store
IndexOf(m) == CHOOSE i \in 1..Len(messages) : messages[i] = m

\* view lists the messages at the positions I of messages, each once
ListsExactly(view, I) ==
    /\ Len(view) = Cardinality(I)
    /\ \A i \in I : \E p \in 1..Len(view) : view[p] = messages[i]
    /\ \A p \in 1..Len(view) : \E i \in I : view[p] = messages[i]

\* m comes before n when sorted by ascending createdAt, equal createdAt
\* keeping the order of the store
BeforeAscending(m, n) ==
    \/ m.createdAt < n.createdAt
    \/ m.createdAt = n.createdAt /\ IndexOf(m) < IndexOf(n)

\* m comes before n when sorted by descending createdAt, equal createdAt
\* keeping the order of the store
BeforeDescending(m, n) ==
    \/ m.createdAt > n.createdAt
    \/ m.createdAt = n.createdAt /\ IndexOf(m) < IndexOf(n)

\* C14: the current-channel view lists exactly the messages of the selected
\* channel, only those carrying the selected tag when a tag filter is set,
\* by ascending createdAt with equal createdAt in store order; it is empty
\* when no channel is selected.
C14_CurrentChannelView ==
    LET view == useCurrentMessages
        listed == {i \in 1..Len(messages) :
                      /\ messages[i].channelId = selectedChannelId
                      /\ selectedTag # NoTag =>
                             /\ Has(messages[i], "tags")
                             /\ \E k \in 1..Len(messages[i].tags) :
                                    messages[i].tags[k] = selectedTag}
    IN  /\ ListsExactly(view, listed)
        /\ \A p, q \in 1..Len(view) : p < q => BeforeAscending(view[p], view[q])
        /\ selectedChannelId = NULL => view = <<>>

\* a tag filter is set on a channel that holds an untagged message and a
\* message with other tags, and the view lists two messages of equal
\* createdAt
C14_Witness ==
    /\ selectedTag = <<"b">>
    /\ selectedChannelId = "bk-general"
    /\ \E i \in 1..Len(messages) :
           messages[i].channelId = selectedChannelId /\ ~Has(messages[i], "tags")
    /\ \E i \in 1..Len(messages) :
           /\ messages[i].channelId = selectedChannelId
           /\ Has(messages[i], "tags") /\ ~Includes(messages[i].tags, selectedTag)
    /\ Len(useCurrentMessages) = 2
    /\ useCurrentMessages[1].createdAt = useCurrentMessages[2].createdAt

\* C15 as stated: the bookmarked list holds exactly the bookmarked messages
\* of all channels by descending createdAt, and its order is the reverse of
\* the current-channel (ascending) order of those messages.
C15_ReverseOfChannelOrder ==
    LET view == getBookmarkedMessages
        listed == {i \in 1..Len(messages) : Flag(messages[i], "isBookmarked")}
    IN  /\ ListsExactly(view, listed)
        /\ \A p, q \in 1..Len(view) :
               p < q => /\ view[p].createdAt >= view[q].createdAt
                        /\ BeforeAscending(view[q], view[p])

\* C15: the bookmarked list holds exactly the bookmarked messages of all
\* channels, whatever channel is selected, by descending createdAt with
\* equal createdAt in store order; it is the reverse of the ascending order
\* of those messages when their createdAt values differ.
C15_BookmarkedView ==
    LET view == getBookmarkedMessages
        listed == {i \in 1..Len(messages) : Flag(messages[i], "isBookmarked")}
    IN  /\ ListsExactly(view, listed)
        /\ \A p, q \in 1..Len(view) : p < q => BeforeDescending(view[p], view[q])
        /\ (\A i, j \in listed :
                i # j => messages[i].createdAt # messages[j].createdAt)
           => \A p, q \in 1..Len(view) :
                  p < q => BeforeAscending(view[q], view[p])

\* bookmarks of two channels are listed, one of them older than the
\* message stored before it and two of them of equal createdAt
C15_Witness ==
    LET view == getBookmarkedMessages
    IN  /\ Len(view) >= 3
        /\ \E p, q \in 1..Len(view) : view[p].channelId # view[q].channelId
        /\ \E p \in 1..Len(view) : view[p].channelId # selectedChannelId
        /\ \E p, q \in 1..Len(view) :
               p < q /\ view[p].createdAt = view[q].createdAt
        /\ \E p, q \in 1..Len(view) :
               p < q /\ IndexOf(view[p]) > IndexOf(view[q])

\* C16: the pinned list holds exactly the pinned messages of the selected
\* channel by ascending createdAt; no message of another channel is in it,
\* and it is empty when no channel is selected.
C16_PinnedView ==
    LET view == getPinnedMessages
        listed == {i \in 1..Len(messages) :
                      /\ Flag(messages[i], "isPinned")
                      /\ messages[i].channelId = selectedChannelId}
    IN  /\ ListsExactly(view, listed)
        /\ \A p, q \in 1..Len(view) : p < q => view[p].createdAt <= view[q].createdAt
        /\ \A p \in 1..Len(view) : view[p].channelId = selectedChannelId
        /\ selectedChannelId = NULL => view = <<>>

\* the selected channel has two pinned messages, stored newest first, while
\* another channel holds a pinned message too
C16_Witness ==
    LET view == getPinnedMessages
    IN  /\ selectedChannelId # NULL
        /\ Len(view) = 2
        /\ view[1].createdAt < view[2].createdAt
        /\ IndexOf(view[1]) > IndexOf(view[2])
        /\ \E i \in 1..Len(messages) :
               /\ Flag(messages[i], "isPinned")
               /\ messages[i].channelId # selectedChannelId

\* the message has a channel in the store and that channel a server
Resolves(m) ==
    \E c \in 1..Len(channels) :
        /\ channels[c].id = m.channelId
        /\ \E sv \in 1..Len(servers) : servers[sv].id = channels[c].serverId

\* results pairs each message with its channel and its server and lists
\* the messages at the positions I, newest first
SearchResultsAre(results, I) ==
    /\ Len(results) = Cardinality(I)
    /\ \A p \in 1..Len(results) : DOMAIN results[p] = {"message", "channel", "server"}
    /\ ListsExactly([p \in 1..Len(results) |-> results[p].message], I)
    /\ \A p \in 1..Len(results) :
           /\ results[p].channel.id = results[p].message.channelId
           /\ results[p].channel \in Elems(channels)
           /\ results[p].server.id = results[p].channel.serverId
           /\ results[p].server \in Elems(servers)
    /\ \A p, q \in 1..Len(results) :
           p < q => results[p].message.createdAt >= results[q].message.createdAt

\* C17 as stated: for a query that is not blank the search results are
\* the messages whose lowercased content contains the lowercased query and
\* whose channel and server exist; a blank query gives no result.
C17_ContainsTheQuery ==
    IF trim(searchQuery) = <<>>
    THEN getSearchResults = <<>>
    ELSE SearchResultsAre(getSearchResults,
             {i \in 1..Len(messages) :
                 /\ StrIncludes(LowerStr(messages[i].content), LowerStr(searchQuery))
                 /\ Resolves(messages[i])})

\* C17: for a query that is not blank the search results are the messages
\* whose lowercased content contains the lowercased query with the blanks
\* at its ends removed and whose channel and server exist, each with that
\* channel and server, by descending createdAt; a blank query gives no
\* result.
C17_SearchResults ==
    IF trim(searchQuery) = <<>>
    THEN getSearchResults = <<>>
    ELSE SearchResultsAre(getSearchResults,
             {i \in 1..Len(messages) :
                 /\ StrIncludes(LowerStr(messages[i].content),
                                trim(LowerStr(searchQuery)))
                 /\ Resolves(messages[i])})

\* the query ends in a blank; a message that holds the word is found, and a
\* message that holds it too but whose channel is missing is not
C17_Witness ==
    /\ searchQuery = <<"b", " ">>
    /\ Len(getSearchResults) >= 1
    /\ \E i \in 1..Len(messages) :
           /\ StrIncludes(LowerStr(messages[i].content), <<"b">>)
           /\ ~Resolves(messages[i])

\* C18: no derived view lists a message whose channel is missing or whose
\* channel's server is missing, and the tag statistics count only the
\* messages that resolve.
C18_ViewsOmitOrphans ==
    /\ \A p \in 1..Len(useCurrentMessages) : Resolves(useCurrentMessages[p])
    /\ \A p \in 1..Len(getPinnedMessages) : Resolves(getPinnedMessages[p])
    /\ \A p \in 1..Len(getBookmarkedMessages) : Resolves(getBookmarkedMessages[p])
    /\ \A p \in 1..Len(getSearchResults) : Resolves(getSearchResults[p].message)
    /\ LET occurrences == TagOccurrences(Filter(messages, Resolves))
       IN  \A p \in 1..Len(getAllTags) :
               getAllTags[p].count =
                   Cardinality({j \in 1..Len(occurrences) :
                                   occurrences[j] = getAllTags[p].tag})

\* C19: a call of getSearchResults, getAllTags, getPinnedMessages,
\* getBookmarkedMessages or the current-channel view leaves the three
\* collections, both selections, the tag filter, the search query and the
\* stored snapshot as they were.
C19_ViewsArePureReads ==
    [][(\/ call_getSearchResults
        \/ call_getAllTags
        \/ call_getPinnedMessages
        \/ call_getBookmarkedMessages
        \/ call_useCurrentMessages)
           => UNCHANGED <<storeVars, selVars, uiVars, storage>>
      ]_vars

\* getBookmarkedMessages has just returned the bookmarks in another order
\* than the store holds them, and the store still holds them in its order
C19_Witness ==
    /\ lastOp.op = "getBookmarkedMessages"
    /\ Len(returned) >= 3
    /\ returned # Filter(messages, LAMBDA m : Flag(m, "isBookmarked"))
    /\ Map(messages, LAMBDA m : m.id) = <<"bk-m1", "bk-m2", "bk-m3", "bk-m4">>

\* the positions of content where a tag token starts: a tag sign followed by
\* a tag character
TokenStarts(content) ==
    {i \in 1..(Len(content) - 1) : content[i] = "#" /\ content[i + 1] \in TagChars}

\* the token starting at position i, lowercased: the longest run of tag
\* characters after the tag sign
TokenAt(content, i) ==
    LET last == CHOOSE e \in (i + 1)..Len(content) :
                    /\ \A k \in (i + 1)..e : content[k] \in TagChars
                    /\ e = Len(content) \/ content[e + 1] \notin TagChars
    IN  LowerStr(SubSeq(content, i + 1, last))

\* C20: parseTags(content) holds the lowercased tokens of content, each
\* once, in the order of their first occurrence, tokens differing in case
\* only counting as one; it is empty when content has no token;
\* "#a #b #a" gives [a, b].
C20_ParseTags ==
    lastOp.op = "parseTags" =>
        LET starts == TokenStarts(arg)
            First(t) == CHOOSE i \in starts :
                            /\ TokenAt(arg, i) = t
                            /\ \A j \in starts : TokenAt(arg, j) = t => i <= j
        IN  /\ Elems(returned) = {TokenAt(arg, i) : i \in starts}
            /\ \A p, q \in 1..Len(returned) :
                   p < q => /\ returned[p] # returned[q]
                            /\ First(returned[p]) < First(returned[q])
            /\ starts = {} => returned = <<>>
            /\ arg = <<"#", "a", " ", "#", "b", " ", "#", "a">>
                   => returned = << <<"a">>, <<"b">> >>

\* parseTags has been called on "#a #b #a" and returned [a, b]
C20_Witness ==
    /\ lastOp.op = "parseTags"
    /\ arg = <<"#", "a", " ", "#", "b", " ", "#", "a">>
    /\ returned = << <<"a">>, <<"b">> >>

\* parts.map(p => p.content).join('')
RECURSIVE ConcatRaw(_)
ConcatRaw(parts) ==
    IF parts = <<>> THEN <<>> ELSE parts[1].content \o ConcatRaw(Tail(parts))

\* C21: the content fields of the parts that parseContentWithTags(content)
\* returns, concatenated in order, are content, and no part has an empty
\* content field.
C21_PartsRoundTrip ==
    lastOp.op = "parseContentWithTags" =>
        /\ ConcatRaw(returned) = arg
        /\ \A p \in 1..Len(returned) : returned[p].content # <<>>

\* parseContentWithTags has returned text, a tag and text again
C21_Witness ==
    /\ lastOp.op = "parseContentWithTags"
    /\ Len(returned) = 3
    /\ returned[1].type = "text"
    /\ returned[2].type = "tag"
    /\ returned[3].type = "text"

\* the tag values of the tag parts, in the order of the parts
TagsOfParts(parts) ==
    LET tagParts == SelectSeq(parts, LAMBDA part : part.type = "tag")
    IN  [p \in 1..Len(tagParts) |-> tagParts[p].tag]

\* C22: the tags parseTags(content) returns are the tag values of the tag
\* parts of parseContentWithTags(content), and parseTags lists them in the
\* order in which the parts first show them.
C22_TagsAgreeWithParts ==
    lastOp.op = "parseContentWithTags" =>
        LET tags == parseTags(arg)
            partTags == TagsOfParts(returned)
            First(t) == CHOOSE p \in 1..Len(partTags) :
                            /\ partTags[p] = t
                            /\ \A q \in 1..Len(partTags) : partTags[q] = t => p <= q
        IN  /\ Elems(tags) = Elems(partTags)
            /\ \A p, q \in 1..Len(tags) :
                   p < q => First(tags[p]) < First(tags[q])

\* the content shows one tag twice, in two cases, around another tag: the
\* parts carry three tag values, parseTags two
C22_Witness ==
    /\ lastOp.op = "parseContentWithTags"
    /\ TagsOfParts(returned) = << <<"a">>, <<"b">>, <<"a">> >>
    /\ parseTags(arg) = << <<"a">>, <<"b">> >>
    /\ \E p \in 1..Len(returned) :
           returned[p].type = "tag" /\ returned[p].content = <<"#", "A">>

\* C23: whatever calls of parseTags, hasTags and parseContentWithTags came
\* before, parseTags(content) returns what it returns as the first call of
\* a process.
C23_ParseTagsIsPure ==
    lastOp.op = "parseTags" => returned = parseTagsFrom(arg, 0)

\* the slot holds a parsable snapshot with the three collections and the
\* current version
HoldsCurrentSnapshot ==
    /\ storage # NoItem
    /\ storage[1].parses
    /\ ~ReadThrows(storage[1].value)
    /\ Has(storage[1].value, "messages")
    /\ Has(storage[1].value, "version")
    /\ storage[1].value.version = CURRENT_VERSION

\* the seeded default: one server, one channel, one welcome message
IsSeededDefault(data) ==
    /\ data = getDefaultData
    /\ Len(data.servers) = 1
    /\ Len(data.channels) = 1
    /\ Len(data.messages) = 1

\* C24: loadData returns the stored snapshot unchanged, and leaves the slot
\* alone, when the slot holds a well-formed snapshot of the current version;
\* when the slot is empty it returns the seeded default (one server, one
\* channel, one welcome message) and the slot holds that default when the
\* call returns.
C24_LoadData ==
    [][call_loadData =>
          /\ HoldsCurrentSnapshot =>
                 /\ returned' = storage[1].value
                 /\ storage' = storage
          /\ storage = NoItem =>
                 /\ IsSeededDefault(returned')
                 /\ storage' = <<JSONStringify(returned')>>]_vars

\* loadData has run on the empty slot of a store that never loaded: it
\* returned the default and the slot holds it
C24_Witness ==
    /\ lastOp.op = "loadData"
    /\ servers = <<>>
    /\ thrown = NULL
    /\ IsSeededDefault(returned)
    /\ storage = <<JSONStringify(returned)>>

\* C25: when the stored payload does not parse, loadData returns the seeded
\* default and persists it at once: when the call returns the slot holds the
\* default and no longer the unreadable payload.
C25_UnparsableIsReplaced ==
    [][(call_loadData /\ storage # NoItem /\ ~storage[1].parses) =>
          /\ IsSeededDefault(returned')
          /\ storage' = <<JSONStringify(returned')>>]_vars

\* the slot holds valid JSON that lacks one of the three collections
LacksCollection ==
    /\ storage # NoItem
    /\ storage[1].parses
    /\ ReadThrows(storage[1].value) \/ ~Has(storage[1].value, "messages")

\* C26: when the stored payload is valid JSON but lacks servers, channels or
\* messages, loading at start-up (loadData, then loadFromStorage's set)
\* replaces it with the seeded default, in the slot and in the store, and
\* completes without a thrown fault.
C26_MissingCollectionIsReplaced ==
    [][(loadFromStorage /\ LacksCollection) =>
          /\ thrown' = NULL
          /\ IsSeededDefault(Snapshot(servers', channels', messages'))
          /\ storage' = <<JSONStringify(getDefaultData)>>]_vars

\* C27: an import whose file text is not parsable JSON, or whose parsed
\* value lacks servers, channels or messages, rejects (and does not
\* resolve), and changes neither the stored snapshot nor the collections and
\* selections of the store.
C27_FailedImportChangesNothing ==
    [][\A i \in 1..Len(imports) :
          (readerOnload(i) /\ ~Importable(imports[i].file)) =>
              /\ imports'[i].rejected = imports[i].rejected + 1
              /\ imports'[i].resolved = imports[i].resolved
              /\ storage' = storage
              /\ UNCHANGED <<storeVars, selVars>>]_vars

\* a file that parses but lacks a collection has been rejected while the
\* store and the slot hold data
C27_Witness ==
    \E i \in 1..Len(imports) :
        /\ imports[i].phase = "done"
        /\ imports[i].file.parses
        /\ ~Importable(imports[i].file)
        /\ imports[i].rejected = 1
        /\ Len(servers) > 0
        /\ selectedServerId # NULL
        /\ storage # NoItem

\* import i has settled exactly once, one way, and the handler has shown
\* the message of that outcome
SettledOnce(i) ==
    /\ imports[i].phase = "done"
    /\ imports[i].resolved + imports[i].rejected = 1
    /\ imports[i].shown = IF imports[i].resolved = 1 THEN "success" ELSE "error"

\* C28: every import that is started eventually either resolves or rejects,
\* exactly one of the two and exactly once, and the settings handler has then
\* shown a success message on resolve and an error message on reject; a
\* settled import stays settled.  An import resolves with the parsed
\* snapshot: the store holds its collections when the handler has run.
C28_ImportSettles ==
    /\ \A i \in 1..MaxImports :
           (Len(imports) >= i) ~> (Len(imports) >= i /\ SettledOnce(i))
    /\ [][\A j \in 1..Len(imports) :
             /\ imports[j].phase = "done" => imports'[j] = imports[j]
             /\ (readerOnload(j) \/ readerOnerror(j)) =>
                    /\ SettledOnce(j)'
                    /\ statusMessage' = imports'[j].shown
                    /\ imports'[j].resolved = 1 =>
                           /\ servers' = imports[j].file.value.servers
                           /\ channels' = imports[j].file.value.channels
                           /\ messages' = imports[j].file.value.messages]_vars

\* one import has resolved and shown success
C28_Witness ==
    \E i \in 1..Len(imports) :
        /\ SettledOnce(i)
        /\ imports[i].resolved = 1
        /\ statusMessage = "success"

\* the slot holds what the store persists: its three collections and
\* version 1
StorePersisted ==
    storage = <<JSONStringify(Snapshot(servers, channels, messages))>>

\* the file holds a snapshot of the shape the store persists
IsStoreSnapshot(file) ==
    /\ Importable(file)
    /\ DOMAIN file.value = {"servers", "channels", "messages", "version"}
    /\ file.value.version = 1

\* C29: for a snapshot S persisted by the store, the exported file parses
\* to S (and exporting leaves the slot alone), and importing a file that
\* holds such a snapshot S leaves the store with the servers, channels and
\* messages of S and the slot with S, version included.
C29_ExportImportRoundTrip ==
    [][/\ (handleExport /\ StorePersisted) =>
              /\ IsStoreSnapshot(exportedFile'[1])
              /\ exportedFile'[1].value = storage[1].value
              /\ storage' = storage
       /\ \A i \in 1..Len(imports) :
              (readerOnload(i) /\ IsStoreSnapshot(imports[i].file)) =>
                  /\ imports'[i].resolved = 1
                  /\ Snapshot(servers', channels', messages')
                         = imports[i].file.value
                  /\ storage' = <<JSONStringify(imports[i].file.value)>>]_vars

\* the backup exported after a server was added has been imported again
C29_Witness ==
    /\ lastOp.op = "importFromData"
    /\ Len(servers) = 2
    /\ \E i \in 1..Len(imports) :
           /\ imports[i].resolved = 1
           /\ imports[i].file \in Elems(exportedFile)
           /\ storage = <<JSONStringify(imports[i].file.value)>>

\* the step is one of the store's mutating operations
MutatingStep ==
    /\ lastOp'.op \in PersistingOps
    /\ steps' = steps + 1

\* C30: when the storage write of a mutating operation fails, the operation
\* still applies its in-memory change as it does on success (addMessage
\* appends the new message with its channel, content, tags and time,
\* deleteMessage removes the message, and the rest of the store is as
\* before), raises no error, and leaves the stored snapshot as it was; the
\* write is not retried: the slot changes only in the step of a mutating
\* operation whose own write succeeds, and then holds the snapshot of that
\* step.
C30_FailedWriteKeepsMemory ==
    [][/\ (MutatingStep /\ storageFails) =>
              /\ storage' = storage
              /\ thrown' = NULL
       /\ \A channelId \in Ids(channels), content \in Contents :
              (addMessage(channelId, content) /\ storageFails) =>
                  /\ Len(messages') = Len(messages) + 1
                  /\ SubSeq(messages', 1, Len(messages)) = messages
                  /\ messages'[Len(messages')] =
                         WithTags([id |-> UuidPool[uuidCount + 1],
                                   channelId |-> channelId,
                                   content |-> content,
                                   createdAt |-> now], parseTagsFrom(content, 0))
                  /\ UNCHANGED <<servers, channels, selVars>>
       /\ \A id \in Ids(messages) :
              (deleteMessage(id) /\ storageFails) =>
                  /\ id \notin Ids(messages')
                  /\ Len(messages') = Len(messages) - 1
                  /\ UNCHANGED <<servers, channels, selVars>>
       /\ storage' # storage =>
              /\ MutatingStep
              /\ ~storageFails
              /\ storage' = <<JSONStringify(Snapshot(servers', channels',
                                                     messages'))>>]_vars

\* addMessage has run while writes fail: the store holds the new message,
\* the slot still holds the snapshot without it
C30_Witness ==
    /\ lastOp.op = "addMessage"
    /\ storageFails
    /\ thrown = NULL
    /\ lastOp.id \in Ids(messages)
    /\ storage # NoItem
    /\ lastOp.id \notin Ids(storage[1].value.messages)

\* C31: after the reset flow (resetData, then loadFromStorage), with
\* storage writes succeeding, the slot and the collections of the store hold
\* exactly the seeded default (one server, one channel, one welcome
\* message), whatever they held before, and the selection is the default
\* server and the default channel.
C31_ResetFlow ==
    [][(handleReset /\ ~storageFails) =>
          /\ IsSeededDefault(Snapshot(servers', channels', messages'))
          /\ storage' = <<JSONStringify(getDefaultData)>>
          /\ selectedServerId' = getDefaultData.servers[1].id
          /\ selectedChannelId' = getDefaultData.channels[1].id
          /\ thrown' = NULL]_vars

\* the reset flow has run on a store that had imported an empty backup
C31_Witness ==
    /\ lastOp.op = "handleReset"
    /\ \E i \in 1..Len(imports) :
           /\ imports[i].resolved = 1
           /\ imports[i].file.value.servers = <<>>
    /\ IsSeededDefault(Snapshot(servers, channels, messages))
    /\ storage = <<JSONStringify(getDefaultData)>>
    /\ selectedChannelId = "default-channel"

\* the three collections of a snapshot
Collections(data) == <<data.servers, data.channels, data.messages>>

\* import i settled last
SettledLast(i) ==
    /\ imports[i].phase = "done"
    /\ \A j \in 1..Len(imports) : imports[j].doneAt <= imports[i].doneAt

\* C32: when two (or more) imports were started and all have completed, the
\* last of them resolving, the stored snapshot and the collections of the
\* store agree, and both hold the collections of the file whose read
\* completed last, whichever import was started first: never a mixture of
\* two files, never the slot from one file and the store from another.  The
\* slot holds that file's snapshot under version 1.
C32_LastReadWins ==
    (/\ Len(imports) >= 2
     /\ \A j \in 1..Len(imports) : imports[j].phase = "done"
     /\ lastOp.op = "importFromData") =>
        \E i \in 1..Len(imports) :
            /\ SettledLast(i)
            /\ imports[i].resolved = 1
            /\ <<servers, channels, messages>> = Collections(imports[i].file.value)
            /\ storage = <<JSONStringify(Spread(imports[i].file.value,
                                                [version |-> 1]))>>

\* the import started first completed last, after the second had resolved
\* with another file
C32_Witness ==
    /\ Len(imports) = 2
    /\ imports[1].doneAt = 2
    /\ imports[2].doneAt = 1
    /\ imports[1].resolved = 1
    /\ imports[2].resolved = 1
    /\ Collections(imports[1].file.value) # Collections(imports[2].file.value)
    /\ lastOp.op = "importFromData"
    /\ <<servers, channels, messages>> = Collections(imports[1].file.value)

\* the id of the first entity of a collection, or none
FirstId(arr) == IF Len(arr) = 0 THEN NULL ELSE arr[1].id

\* C33: when an import resolves and importFromData has been applied, the
\* stored snapshot and the collections of the store both hold exactly the
\* collections of the imported file (under version 1 in the slot), whatever
\* mutations were issued while the file was being read, and the selection
\* is the first server and the first channel of the imported snapshot, or
\* none where that collection is empty.
C33_ImportOverwritesMutations ==
    [][\A i \in 1..Len(imports) :
          (readerOnload(i) /\ Importable(imports[i].file)) =>
              LET data == imports[i].file.value
              IN  /\ servers' = data.servers
                  /\ channels' = data.channels
                  /\ messages' = data.messages
                  /\ storage'[1].parses
                  /\ Collections(storage'[1].value) = Collections(data)
                  /\ storage'[1].value.version = 1
                  /\ Ids(servers') \cup Ids(channels') \cup Ids(messages')
                         \subseteq Ids(data.servers) \cup Ids(data.channels)
                                   \cup Ids(data.messages)
                  /\ selectedServerId' = FirstId(data.servers)
                  /\ selectedChannelId' = FirstId(data.channels)]_vars

\* the only import was started first, two operations, one of them an add,
\* were issued while its file was read, and it has resolved: nothing the
\* store created is left
C33_Witness ==
    /\ Len(imports) = 1
    /\ imports[1].startedAt = 0
    /\ imports[1].resolved = 1
    /\ steps = 3
    /\ uuidCount > 0
    /\ lastOp.op = "importFromData"
    /\ <<servers, channels, messages>> = Collections(imports[1].file.value)
    /\ selectedServerId = FirstId(servers)

\* C34: persistence heals itself.  Right after a mutating operation whose
\* storage write succeeds, the stored snapshot holds the full collections
\* of the store as they are then, version 1, including the effects of every
\* earlier mutation whose own write failed.
C34_SuccessfulWriteHeals ==
    [][(MutatingStep /\ ~storageFails) =>
          /\ storage' # NoItem
          /\ storage'[1].parses
          /\ storage'[1].value = Snapshot(servers', channels', messages')]_vars

\* addMessage ran while writes failed, then addServer ran with a working
\* write: the slot holds the message and the server
C34_Witness ==
    /\ steps = 2
    /\ failedOps = 1
    /\ lastOp.op = "addServer"
    /\ ~storageFails
    /\ "uuid-1" \in Ids(messages)
    /\ "uuid-2" \in Ids(servers)
    /\ storage = <<JSONStringify(Snapshot(servers, channels, messages))>>

\* C36: after any sequence of store operations in which selectServer and
\* selectChannel are called with ids of entities that exist at the time, or
\* with none, and updates leave ids alone, selectedServerId is none or the
\* id of an existing server and selectedChannelId is none or the id of an
\* existing channel: no delete, load or import leaves a selection pointing
\* at a removed entity.
C36_SelectionExists ==
    /\ selectedServerId = NULL \/ selectedServerId \in Ids(servers)
    /\ selectedChannelId = NULL \/ selectedChannelId \in Ids(channels)

\* the selected server has been deleted while another server remains: the
\* selection is none
C36_Witness ==
    /\ lastOp.op = "deleteServer"
    /\ lastOp.found
    /\ Len(servers) > 0
    /\ selectedServerId = NULL
    /\ selectedChannelId = NULL

C37_ResetToDefault ==
    [][resetToDefault =>
          /\ IsSeededDefault(Snapshot(servers', channels', messages'))
          /\ storage' = <<JSONStringify(getDefaultData)>>]_vars

\* the ids of a collection, in its order
IdSeq(arr) == [i \in 1..Len(arr) |-> arr[i].id]

\* from old to new, the entities that survive keep their relative order and
\* the entities that are new come after all of them
OrderKept(old, new) ==
    /\ SelectSeq(IdSeq(old), LAMBDA id : id \in Ids(new))
           = SelectSeq(IdSeq(new), LAMBDA id : id \in Ids(old))
    /\ \A i, j \in 1..Len(new) :
           (i < j /\ new[i].id \notin Ids(old)) => new[j].id \notin Ids(old)

\* the operations that change entities one at a time
EntityOps == PersistingOps \ {"importFromData"}

\* C38: every store operation on entities (add, update, delete, togglePin,
\* toggleBookmark) preserves the relative order of the surviving servers,
\* channels and messages and places a new entity last; selecting changes no
\* collection; load, reset and import set the collections in the order of
\* the snapshot.  Each collection is therefore in insertion order.
C38_InsertionOrder ==
    [][/\ lastOp'.op \in EntityOps =>
              /\ OrderKept(servers, servers')
              /\ OrderKept(channels, channels')
              /\ OrderKept(messages, messages')
       /\ lastOp'.op \in {"addServer", "addChannel", "addMessage"} =>
              /\ lastOp'.op = "addServer" =>
                     /\ Len(servers') = Len(servers) + 1
                     /\ servers'[Len(servers')].id = lastOp'.id
              /\ lastOp'.op = "addChannel" =>
                     /\ Len(channels') = Len(channels) + 1
                     /\ channels'[Len(channels')].id = lastOp'.id
              /\ lastOp'.op = "addMessage" =>
                     /\ Len(messages') = Len(messages) + 1
                     /\ messages'[Len(messages')].id = lastOp'.id
       /\ lastOp'.op \in {"selectServer", "selectChannel"} =>
              UNCHANGED storeVars
       /\ (\E data \in ImportFiles : importFromData(data)) =>
              \E data \in ImportFiles :
                  <<servers', channels', messages'>> = Collections(data)
       /\ (loadFromStorage \/ resetToDefault) =>
              <<servers', channels', messages'>> = Collections(storage[1].value)
      ]_vars

\* two servers were added and the first of them deleted: the default server
\* and the second one are left, in that order
C38_Witness ==
    /\ lastOp.op = "deleteServer"
    /\ lastOp.found
    /\ IdSeq(servers) = <<"default-server", "uuid-2">>

\* C39: hasTags(content) returns true exactly when content holds a tag, that
\* is when parseTags(content) is non-empty, on every call: also a repeated
\* call with the same content and a call that follows calls on other
\* contents.
C39_HasTagsAgreesWithParseTags ==
    lastOp.op = "hasTags" =>
        (returned <=> parseTagsFrom(arg, 0) # <<>>)

====
